---- MODULE Spec2Model ----
(***************************************************************************)
(* Model of the mod-data store of MINT: the versioned ModData / ModProfile *)
(* records and their migration chain (src/src/state/mod.rs), the loading   *)
(* of the persisted document (read_mod_data_or_default), and the folder,   *)
(* mod and profile mutations driven by the GUI (src/src/gui/mod.rs).       *)
(*                                                                         *)
(* Representation.  A Rust String is a sequence of one-character strings,  *)
(* so that trim() and the byte-wise Ord of BTreeMap keys are computed and  *)
(* not assumed.  Option<T> is a sequence of length at most one.  A         *)
(* BTreeMap is a function whose DOMAIN is the key set.                     *)
(***************************************************************************)
EXTENDS Integers, Sequences, FiniteSets, TLC

VARIABLES
    disk,                 \* the two files of the config directory
    pc,                   \* position of the process: State::init, the GUI, or dead
    fault,                \* the StateError that ended State::init, or the panic site
    buf,                  \* the bytes read_mod_data_or_default has read, if any
    mod_data,             \* State.mod_data: Option<VersionAnnotatedModData>
    pending_deletion,     \* App.pending_deletion
    create_folder_popup,  \* App.create_folder_popup
    rename_folder_popup,  \* App.rename_folder_popup
    mig_in,               \* argument handed to a From impl (migration in isolation)
    mig_cur,              \* value the migration chain has produced so far
    maybe_versioned,      \* read_mod_data_or_default: its local mod_data after the
                          \* first match, an Option<MaybeVersionedModData>
    tmp_file,             \* the temporary file of a save in progress, if any
    last_op,              \* the query or control last applied to the store, with
                          \* its arguments and what it returned
    sorting_config        \* State.config.sorting_config: Option<SortingConfig>

vars == <<disk, pc, fault, buf, mod_data, pending_deletion, create_folder_popup,
          rename_folder_popup, mig_in, mig_cur, maybe_versioned, tmp_file, last_op,
          sorting_config>>

---------------------------------------------------------------------------
(* Generic helpers                                                         *)

None == <<>>
Some(x) == <<x>>
IsSome(o) == Len(o) = 1
Unwrap(o) == o[1]

BoundedSeq(S, n) == UNION {[1..k -> S] : k \in 0..n}

EmptyMap == [k \in {} |-> k]
\* the maps with at most one key
SmallMaps(K, V) == {EmptyMap} \cup {[x \in {k} |-> v] : k \in K, v \in V}
MapInsert(m, k, v) == [x \in (DOMAIN m) \cup {k} |-> IF x = k THEN v ELSE m[x]]
MapRemove(m, k) == [x \in (DOMAIN m) \ {k} |-> m[x]]

\* Vec::remove(i) with a 0-based index that is in range
VecRemove(s, i) == [j \in 1..(Len(s) - 1) |-> IF j <= i THEN s[j] ELSE s[j + 1]]

---------------------------------------------------------------------------
(* Strings                                                                 *)

\* the characters used, in increasing byte order (u8 order is String's Ord)
Alphabet ==
    <<" ", "A", "B", "a", "b", "d", "e", "f", "h", "i", "l", "m", "o", "p", "t", "u">>
CharRank(c) == CHOOSE i \in 1..Len(Alphabet) : Alphabet[i] = c

RECURSIVE StrLess(_, _)
StrLess(a, b) ==
    IF b = <<>> THEN FALSE
    ELSE IF a = <<>> THEN TRUE
    ELSE IF CharRank(Head(a)) # CharRank(Head(b))
         THEN CharRank(Head(a)) < CharRank(Head(b))
         ELSE StrLess(Tail(a), Tail(b))

\* BTreeMap::keys().next(): the least key, None for an empty map
FirstKey(m) ==
    IF DOMAIN m = {} THEN None
    ELSE Some(CHOOSE k \in DOMAIN m : \A o \in (DOMAIN m) \ {k} : StrLess(k, o))

RECURSIVE TrimStart(_)
TrimStart(s) == IF s # <<>> /\ Head(s) = " " THEN TrimStart(Tail(s)) ELSE s
RECURSIVE TrimEnd(_)
TrimEnd(s) ==
    IF s # <<>> /\ s[Len(s)] = " " THEN TrimEnd(SubSeq(s, 1, Len(s) - 1)) ELSE s
\* str::trim
Trim(s) == TrimEnd(TrimStart(s))

S_default == <<"d", "e", "f", "a", "u", "l", "t">>

---------------------------------------------------------------------------
(* Data types (state/mod.rs)                                               *)

ModConfig(spec, required, enabled, priority) ==
    [spec |-> spec, required |-> required, enabled |-> enabled, priority |-> priority]

ModGroup(mods, priority_override) ==
    [mods |-> mods, priority_override |-> priority_override]

Individual(mc) == [kind |-> "Individual", mc |-> mc]
Group(group_name, enabled) ==
    [kind |-> "Group", group_name |-> group_name, enabled |-> enabled]
IsGroup(m) == m.kind = "Group"

ModProfile_v0_0_0(mods) == [mods |-> mods]
ModProfile_v0_1_0(mods) == [mods |-> mods]
ModProfile_v0_2_0(mods, groups) == [mods |-> mods, groups |-> groups]

ModData_v0_0_0(active_profile, profiles) ==
    [active_profile |-> active_profile, profiles |-> profiles]
ModData_v0_1_0(active_profile, profiles, groups) ==
    [active_profile |-> active_profile, profiles |-> profiles, groups |-> groups]
ModData_v0_2_0(active_profile, profiles) ==
    [active_profile |-> active_profile, profiles |-> profiles]

\* a value of one generation of one versioned record, or the panic of a From impl
Versioned(type, gen, v) == [type |-> type, gen |-> gen, v |-> v]
Panic == [type |-> "panic", gen |-> 0, v |-> None]

---------------------------------------------------------------------------
(* Migration chain: the From impls                                         *)

\* impl From<ModProfile!["0.0.0"]> for ModProfile!["0.1.0"]: unimplemented!()
ModProfile_v0_1_0_from(legacy) == Panic

\* impl From<ModProfile!["0.1.0"]> for ModProfile!["0.2.0"]
ModProfile_v0_2_0_from(legacy) ==
    Versioned("ModProfile", 2, ModProfile_v0_2_0(legacy.mods, EmptyMap))

\* variant that collects each profile's mods in reverse order
ModData_v0_1_0_from_reversed(legacy) ==
    LET new_profile(profile) ==
            ModProfile_v0_1_0([i \in 1..Len(profile.mods) |->
                Individual(profile.mods[Len(profile.mods) + 1 - i])])
    IN  ModData_v0_1_0(
            legacy.active_profile,
            [name \in DOMAIN legacy.profiles |-> new_profile(legacy.profiles[name])],
            EmptyMap)

\* impl From<ModData!["0.0.0"]> for ModData!["0.1.0"]
ModData_v0_1_0_from(legacy) ==
    LET new_profile(profile) ==
            ModProfile_v0_1_0([i \in 1..Len(profile.mods) |-> Individual(profile.mods[i])])
    IN  ModData_v0_1_0(
            legacy.active_profile,
            [name \in DOMAIN legacy.profiles |-> new_profile(legacy.profiles[name])],
            EmptyMap)

\* the loop "for item in &profile.mods" of the 0.1.0 -> 0.2.0 migration
RECURSIVE ProfileGroups(_, _, _)
ProfileGroups(mods, legacy_groups, profile_groups) ==
    IF mods = <<>> THEN profile_groups
    ELSE LET item == Head(mods)
         IN  ProfileGroups(
                 Tail(mods), legacy_groups,
                 IF IsGroup(item) /\ item.group_name \in DOMAIN legacy_groups
                 THEN MapInsert(profile_groups, item.group_name,
                                legacy_groups[item.group_name])
                 ELSE profile_groups)

\* variant that hands the whole legacy group map to every profile
ModData_v0_2_0_from_all_groups(legacy) ==
    ModData_v0_2_0(
        legacy.active_profile,
        [name \in DOMAIN legacy.profiles |->
            ModProfile_v0_2_0(legacy.profiles[name].mods, legacy.groups)])

\* impl From<ModData!["0.1.0"]> for ModData!["0.2.0"]
ModData_v0_2_0_from(legacy) ==
    ModData_v0_2_0(
        legacy.active_profile,
        [name \in DOMAIN legacy.profiles |->
            ModProfile_v0_2_0(
                legacy.profiles[name].mods,
                ProfileGroups(legacy.profiles[name].mods, legacy.groups, EmptyMap))])

---------------------------------------------------------------------------
(* Persisted documents: serde's view of the types                          *)
(*                                                                         *)
(* A JSON object is a function from field names to values, so a missing    *)
(* field is a name outside its DOMAIN; bytes that are not JSON at all are  *)
(* the document Garbage.                                                   *)

Garbage == [garbage |-> TRUE]

\* The outcome of a deserialization is the set of the values it yields: the one
\* value, or none when serde reports an error.
Parsed(v) == {v}
ParseError == {}

Has(o, fields) == fields \subseteq DOMAIN o

\* Vec<T>: every element must deserialize
DeVec(arr, De(_)) ==
    LET rs == [i \in 1..Len(arr) |-> De(arr[i])]
    IN  IF \A i \in 1..Len(arr) : rs[i] # ParseError
        THEN Parsed([i \in 1..Len(arr) |-> CHOOSE v \in rs[i] : TRUE])
        ELSE ParseError

\* BTreeMap<String, T>: every value must deserialize
DeMap(obj, De(_)) ==
    LET rs == [k \in DOMAIN obj |-> De(obj[k])]
    IN  IF \A k \in DOMAIN obj : rs[k] # ParseError
        THEN Parsed([k \in DOMAIN obj |-> CHOOSE v \in rs[k] : TRUE])
        ELSE ParseError

\* ModConfig: enabled defaults to true, priority to 0 and is skipped when 0
SerModConfig(mc) ==
    IF mc.priority = 0
    THEN [spec |-> mc.spec, required |-> mc.required, enabled |-> mc.enabled]
    ELSE [spec |-> mc.spec, required |-> mc.required, enabled |-> mc.enabled,
          priority |-> mc.priority]

DeModConfig(o) ==
    IF Has(o, {"spec", "required"})
    THEN Parsed(ModConfig(o.spec, o.required,
                          IF Has(o, {"enabled"}) THEN o.enabled ELSE TRUE,
                          IF Has(o, {"priority"}) THEN o.priority ELSE 0))
    ELSE ParseError

\* ModOrGroup is #[serde(untagged)]: no tag is written, and the variants are
\* tried in declaration order, Group first
SerModOrGroup(m) ==
    IF IsGroup(m)
    THEN [group_name |-> m.group_name, enabled |-> m.enabled]
    ELSE SerModConfig(m.mc)

DeModOrGroup(o) ==
    IF Has(o, {"group_name", "enabled"})
    THEN Parsed(Group(o.group_name, o.enabled))
    ELSE {Individual(mc) : mc \in DeModConfig(o)}

\* ModGroup: priority_override defaults to None and is skipped when None
SerModGroup(g) ==
    IF IsSome(g.priority_override)
    THEN [mods |-> [i \in 1..Len(g.mods) |-> SerModConfig(g.mods[i])],
          priority_override |-> Unwrap(g.priority_override)]
    ELSE [mods |-> [i \in 1..Len(g.mods) |-> SerModConfig(g.mods[i])]]

DeModGroup(o) ==
    IF ~Has(o, {"mods"}) THEN ParseError
    ELSE {ModGroup(mods, IF Has(o, {"priority_override"})
                         THEN Some(o.priority_override) ELSE None) :
            mods \in DeVec(o.mods, DeModConfig)}

SerGroups(groups) == [g \in DOMAIN groups |-> SerModGroup(groups[g])]

\* ModProfile, one deserializer per generation
SerModProfile_v0_0_0(p) == [mods |-> [i \in 1..Len(p.mods) |-> SerModConfig(p.mods[i])]]
SerModProfile_v0_1_0(p) == [mods |-> [i \in 1..Len(p.mods) |-> SerModOrGroup(p.mods[i])]]
SerModProfile_v0_2_0(p) ==
    [mods |-> [i \in 1..Len(p.mods) |-> SerModOrGroup(p.mods[i])],
     groups |-> SerGroups(p.groups)]

DeModProfile_v0_0_0(o) ==
    IF ~Has(o, {"mods"}) THEN ParseError
    ELSE {ModProfile_v0_0_0(mods) : mods \in DeVec(o.mods, DeModConfig)}

DeModProfile_v0_1_0(o) ==
    IF ~Has(o, {"mods"}) THEN ParseError
    ELSE {ModProfile_v0_1_0(mods) : mods \in DeVec(o.mods, DeModOrGroup)}

\* groups is #[serde(default)]
DeModProfile_v0_2_0(o) ==
    IF ~Has(o, {"mods"}) THEN ParseError
    ELSE {ModProfile_v0_2_0(mods, groups) :
            mods \in DeVec(o.mods, DeModOrGroup),
            groups \in IF Has(o, {"groups"}) THEN DeMap(o.groups, DeModGroup)
                       ELSE Parsed(EmptyMap)}

\* ModData bodies (the struct fields, without the version tag)
SerModData_v0_0_0(md) ==
    [active_profile |-> md.active_profile,
     profiles |-> [n \in DOMAIN md.profiles |-> SerModProfile_v0_0_0(md.profiles[n])]]
SerModData_v0_1_0(md) ==
    [active_profile |-> md.active_profile,
     profiles |-> [n \in DOMAIN md.profiles |-> SerModProfile_v0_1_0(md.profiles[n])],
     groups |-> SerGroups(md.groups)]
SerModData_v0_2_0(md) ==
    [active_profile |-> md.active_profile,
     profiles |-> [n \in DOMAIN md.profiles |-> SerModProfile_v0_2_0(md.profiles[n])]]

\* unknown fields (a version tag, a groups map) are ignored by every struct
DeModData_v0_0_0(o) ==
    IF ~Has(o, {"active_profile", "profiles"}) THEN ParseError
    ELSE {ModData_v0_0_0(o.active_profile, profiles) :
            profiles \in DeMap(o.profiles, DeModProfile_v0_0_0)}

DeModData_v0_1_0(o) ==
    IF ~Has(o, {"active_profile", "profiles", "groups"}) THEN ParseError
    ELSE {ModData_v0_1_0(o.active_profile, profiles, groups) :
            profiles \in DeMap(o.profiles, DeModProfile_v0_1_0),
            groups \in DeMap(o.groups, DeModGroup)}

DeModData_v0_2_0(o) ==
    IF ~Has(o, {"active_profile", "profiles"}) THEN ParseError
    ELSE {ModData_v0_2_0(o.active_profile, profiles) :
            profiles \in DeMap(o.profiles, DeModProfile_v0_2_0)}

\* VersionAnnotatedModData: #[serde(tag = "version")], one variant per generation
V0_0_0(md) == [variant |-> "V0_0_0", md |-> md]
V0_1_0(md) == [variant |-> "V0_1_0", md |-> md]
V0_2_0(md) == [variant |-> "V0_2_0", md |-> md]

\* the internal tag: a "version" field beside the struct's own fields
WithTag(body, tag) ==
    [f \in (DOMAIN body) \cup {"version"} |-> IF f = "version" THEN tag ELSE body[f]]

\* variant that still writes the tag of the previous generation for V0_2_0
SerVersionAnnotatedModData_stale_tag(v) ==
    CASE v.variant = "V0_0_0" -> WithTag(SerModData_v0_0_0(v.md), "0.0.0")
      [] v.variant = "V0_1_0" -> WithTag(SerModData_v0_1_0(v.md), "0.1.0")
      [] v.variant = "V0_2_0" -> WithTag(SerModData_v0_2_0(v.md), "0.1.0")

SerVersionAnnotatedModData(v) ==
    CASE v.variant = "V0_0_0" -> WithTag(SerModData_v0_0_0(v.md), "0.0.0")
      [] v.variant = "V0_1_0" -> WithTag(SerModData_v0_1_0(v.md), "0.1.0")
      [] v.variant = "V0_2_0" -> WithTag(SerModData_v0_2_0(v.md), "0.2.0")

DeVersionAnnotatedModData(o) ==
    IF ~Has(o, {"version"}) THEN ParseError
    ELSE CASE o.version = "0.0.0" -> {V0_0_0(md) : md \in DeModData_v0_0_0(o)}
           [] o.version = "0.1.0" -> {V0_1_0(md) : md \in DeModData_v0_1_0(o)}
           [] o.version = "0.2.0" -> {V0_2_0(md) : md \in DeModData_v0_2_0(o)}
           [] OTHER -> ParseError

\* MaybeVersionedModData: #[serde(untagged)], Versioned tried first, then Legacy
Versioned_(v) == [variant |-> "Versioned", inner |-> v]
Legacy(md) == [variant |-> "Legacy", inner |-> md]

\* serde_json::from_slice::<MaybeVersionedModData>
DeMaybeVersionedModData(doc) ==
    IF doc = Garbage THEN ParseError
    ELSE {Versioned_(v) : v \in DeVersionAnnotatedModData(doc)}
         \cup {Legacy(md) : md \in IF DeVersionAnnotatedModData(doc) = ParseError
                                   THEN DeModData_v0_0_0(doc)
                                   ELSE ParseError}

---------------------------------------------------------------------------
(* Loading the store: read_mod_data_or_default and State::init             *)

\* a file whose read fails with an error other than NotFound
Unreadable == [io_error |-> TRUE]

Ok(v) == [ok |-> TRUE, v |-> v]
StateError(kind) == [ok |-> FALSE, err |-> kind]

\* impl Default for ModData!["0.2.0"]
ModData_v0_2_0_default ==
    ModData_v0_2_0(S_default, [n \in {S_default} |-> ModProfile_v0_2_0(<<>>, EmptyMap)])

\* impl Default for VersionAnnotatedModData
VersionAnnotatedModData_default == V0_2_0(ModData_v0_2_0_default)

\* impl Default for MaybeVersionedModData
MaybeVersionedModData_default == Versioned_(VersionAnnotatedModData_default)

\* .context(..)?: a serde error becomes the StateError of that kind
Context(parsed, kind) ==
    IF parsed = ParseError THEN StateError(kind) ELSE Ok(CHOOSE v \in parsed : TRUE)

\* the legacy file is removed once it has been deserialized; remove_ok is whether
\* fs::remove_file succeeds
RemoveLegacy(res, d, remove_ok) ==
    IF ~res.ok THEN [res |-> res, disk |-> d]
    ELSE IF ~remove_ok THEN [res |-> StateError("IoError"), disk |-> d]
    ELSE [res |-> res, disk |-> [d EXCEPT !.profiles_json = None]]

\* variant that falls back to the legacy file when mod_data.json does not
\* deserialize
ReadMaybeVersioned_fall_back(d, remove_ok) ==
    IF d.mod_data_json # None /\ Unwrap(d.mod_data_json) = Unreadable
    THEN [res |-> StateError("IoError"), disk |-> d]
    ELSE IF /\ d.mod_data_json # None
            /\ \/ d.profiles_json = None
               \/ DeMaybeVersionedModData(Unwrap(d.mod_data_json)) # ParseError
    THEN [res |-> Context(DeMaybeVersionedModData(Unwrap(d.mod_data_json)),
                          "ModDataDeserializationFailed"),
          disk |-> d]
    ELSE IF d.profiles_json # None
         THEN IF Unwrap(d.profiles_json) = Unreadable
              THEN [res |-> StateError("IoError"), disk |-> d]
              ELSE RemoveLegacy(
                       Context(DeMaybeVersionedModData(Unwrap(d.profiles_json)),
                               "LegacyProfilesDeserializationFailed"),
                       d, remove_ok)
         ELSE [res |-> Ok(MaybeVersionedModData_default), disk |-> d]

\* the first match of read_mod_data_or_default: which file is read and how it is
\* deserialized.  Yields the result and the disk afterwards.
ReadMaybeVersioned(d, remove_ok) ==
    IF d.mod_data_json # None
    THEN IF Unwrap(d.mod_data_json) = Unreadable
         THEN [res |-> StateError("IoError"), disk |-> d]
         ELSE [res |-> Context(DeMaybeVersionedModData(Unwrap(d.mod_data_json)),
                               "ModDataDeserializationFailed"),
               disk |-> d]
    ELSE IF d.profiles_json # None
         THEN IF Unwrap(d.profiles_json) = Unreadable
              THEN [res |-> StateError("IoError"), disk |-> d]
              ELSE RemoveLegacy(
                       Context(DeMaybeVersionedModData(Unwrap(d.profiles_json)),
                               "LegacyProfilesDeserializationFailed"),
                       d, remove_ok)
         ELSE [res |-> Ok(MaybeVersionedModData_default), disk |-> d]

\* variant whose V0_1_0 arm hands the value on without migrating it
MigrateLoaded_keep_gen1(m) ==
    IF m.variant = "Legacy"
    THEN V0_2_0(ModData_v0_2_0_from(ModData_v0_1_0_from(m.inner)))
    ELSE CASE m.inner.variant = "V0_0_0" ->
                V0_2_0(ModData_v0_2_0_from(ModData_v0_1_0_from(m.inner.md)))
           [] m.inner.variant = "V0_1_0" -> V0_1_0(m.inner.md)
           [] m.inner.variant = "V0_2_0" -> V0_2_0(m.inner.md)

\* the second match of read_mod_data_or_default: the migration chain
MigrateLoaded(m) ==
    IF m.variant = "Legacy"
    THEN V0_2_0(ModData_v0_2_0_from(ModData_v0_1_0_from(m.inner)))
    ELSE CASE m.inner.variant = "V0_0_0" ->
                V0_2_0(ModData_v0_2_0_from(ModData_v0_1_0_from(m.inner.md)))
           [] m.inner.variant = "V0_1_0" -> V0_2_0(ModData_v0_2_0_from(m.inner.md))
           [] m.inner.variant = "V0_2_0" -> V0_2_0(m.inner.md)

\* the second match applied to the outcome of the first
MigrateResult(first) ==
    IF first.res.ok
    THEN [res |-> Ok(MigrateLoaded(first.res.v)), disk |-> first.disk]
    ELSE first

read_mod_data_or_default(d, remove_ok) ==
    MigrateResult(ReadMaybeVersioned(d, remove_ok))

\* ConfigWrapper::save of the store: the serialized value replaces the file
SaveModData(d, v) == [d EXCEPT !.mod_data_json = Some(SerVersionAnnotatedModData(v))]

\* the file fs::read returns in read_mod_data_or_default, None when neither exists
FileRead(d) ==
    IF d.mod_data_json # None THEN d.mod_data_json ELSE d.profiles_json

\* State::init calls read_mod_data_or_default: its first match, which reads and
\* deserializes a file and removes the legacy file
ReadModData ==
    /\ pc = "start"
    /\ buf' = FileRead(disk)
    /\ \E remove_ok \in BOOLEAN :
          \E r \in {ReadMaybeVersioned(disk, remove_ok)} :
              /\ disk' = r.disk
              /\ IF r.res.ok
                 THEN pc' = "deserialized" /\ maybe_versioned' = Some(r.res.v) /\ fault' = None
                 ELSE pc' = "failed" /\ maybe_versioned' = None /\ fault' = Some(r.res.err)
    /\ UNCHANGED <<mod_data, pending_deletion, create_folder_popup,
                   rename_folder_popup, mig_in, mig_cur, tmp_file, last_op, sorting_config>>

\* read_mod_data_or_default: its second match, which migrates the value, and the
\* return to State::init
MigrateModData ==
    /\ pc = "deserialized"
    /\ mod_data' = Some(MigrateLoaded(Unwrap(maybe_versioned)))
    /\ maybe_versioned' = None
    /\ pc' = "loaded"
    /\ UNCHANGED <<disk, fault, buf, pending_deletion, create_folder_popup,
                   rename_folder_popup, mig_in, mig_cur, tmp_file, last_op, sorting_config>>

\* State::init: ConfigWrapper::new(mod_data_path, mod_data), mod_data.save().unwrap()
InitSave ==
    /\ pc = "loaded"
    /\ disk' = SaveModData(disk, Unwrap(mod_data))
    /\ pc' = "saved"
    /\ UNCHANGED <<fault, buf, mod_data, pending_deletion, create_folder_popup,
                   rename_folder_popup, mig_in, mig_cur, maybe_versioned, tmp_file, last_op,
                   sorting_config>>

\* impl Deref / DerefMut for VersionAnnotatedModData
DerefPanics(v) == v.variant # "V0_2_0"
Deref(v) == v.md

\* App::update, first frame: the store is dereferenced for the first time
FirstFrame ==
    /\ pc = "saved"
    /\ IF DerefPanics(Unwrap(mod_data))
       THEN pc' = "panicked" /\ fault' = Some("unreachable")
       ELSE pc' = "running" /\ fault' = None
    /\ UNCHANGED <<disk, buf, mod_data, pending_deletion, create_folder_popup,
                   rename_folder_popup, mig_in, mig_cur, maybe_versioned, tmp_file, last_op,
                   sorting_config>>

---------------------------------------------------------------------------
(* Saving, step by step: what ConfigWrapper::save does to the config       *)
(* directory between its call and its return, and where a crash can fall.  *)

\* the writes it takes to put a whole document into a file
MaxChunks == 2

\* the content of a file that has received the first `written` writes of doc
Truncated(doc, written) ==
    IF written = MaxChunks THEN doc ELSE [truncated |-> doc, written |-> written]
IsTruncated(content) == "truncated" \in DOMAIN content

TempFile(doc, written) == [doc |-> doc, written |-> written]

\* variant that writes into mod_data.json itself
WriteChunk_in_place(d, tmp) ==
    [disk |-> [d EXCEPT !.mod_data_json = Some(Truncated(tmp.doc, tmp.written + 1))],
     tmp |-> TempFile(tmp.doc, tmp.written + 1)]

\* one write of the serialized store: it goes to the temporary file
WriteChunk(d, tmp) ==
    [disk |-> d, tmp |-> TempFile(tmp.doc, tmp.written + 1)]

\* the rename that replaces mod_data.json by the temporary file
PersistTemp(d, tmp) ==
    [d EXCEPT !.mod_data_json = Some(Truncated(tmp.doc, tmp.written))]

\* what a save step or a crash leaves alone
SaveFrame ==
    UNCHANGED <<fault, pending_deletion, create_folder_popup, rename_folder_popup,
                mig_in, mig_cur, last_op, sorting_config>>

\* save: the store is serialized and a temporary file is created beside the target
SaveCreateTemp ==
    /\ pc = "loaded"
    /\ tmp_file' = Some(TempFile(SerVersionAnnotatedModData(Unwrap(mod_data)), 0))
    /\ pc' = "saving"
    /\ UNCHANGED <<disk, buf, mod_data, maybe_versioned>>
    /\ SaveFrame

\* save: one more write
SaveWrite ==
    /\ pc = "saving"
    /\ Unwrap(tmp_file).written < MaxChunks
    /\ \E r \in {WriteChunk(disk, Unwrap(tmp_file))} :
          disk' = r.disk /\ tmp_file' = Some(r.tmp)
    /\ UNCHANGED <<pc, buf, mod_data, maybe_versioned>>
    /\ SaveFrame

\* save: everything is written, the temporary file is persisted
SavePersist ==
    /\ pc = "saving"
    /\ Unwrap(tmp_file).written = MaxChunks
    /\ disk' = PersistTemp(disk, Unwrap(tmp_file))
    /\ tmp_file' = None
    /\ pc' = "saved"
    /\ UNCHANGED <<buf, mod_data, maybe_versioned>>
    /\ SaveFrame

\* the process dies: memory is lost, the files stay as they are
Crash ==
    /\ pc \in {"start", "deserialized", "loaded", "saving", "saved"}
    /\ pc' = "crashed"
    /\ buf' = None /\ mod_data' = None /\ maybe_versioned' = None
    /\ UNCHANGED <<disk, tmp_file>>
    /\ SaveFrame

\* the program is started again; an abandoned temporary file is never reopened
Restart ==
    /\ pc = "crashed"
    /\ pc' = "start"
    /\ tmp_file' = None
    /\ UNCHANGED <<disk, buf, mod_data, maybe_versioned>>
    /\ SaveFrame

---------------------------------------------------------------------------
(* Bounded universes of values                                             *)

MaxLen == 2

U_A == <<"a">>
U_B == <<"b">>
G_A == <<"a">>
G_B == <<"b">>
P_P == <<"p">>

Mod_A == ModConfig(U_A, FALSE, TRUE, 5)
Mod_B == ModConfig(U_B, TRUE, FALSE, 0)

ModConfigs == {Mod_A, Mod_B}
Entries == {Individual(Mod_A), Individual(Mod_B), Group(G_A, TRUE), Group(G_B, FALSE)}
GroupNames == {G_A, G_B}
ProfileNames == {S_default, P_P}
\* the legacy global map, whole or in part
AllGroups == (G_A :> ModGroup(<<Mod_A>>, None)) @@ (G_B :> ModGroup(<<Mod_B, Mod_A>>, Some(7)))
GroupMaps == {[g \in D |-> AllGroups[g]] : D \in SUBSET GroupNames}

Gen0Profiles == {ModProfile_v0_0_0(m) : m \in BoundedSeq(ModConfigs, MaxLen)}
Gen1Profiles == {ModProfile_v0_1_0(m) : m \in BoundedSeq(Entries, MaxLen)}
Gen2Profiles ==
    {ModProfile_v0_2_0(m, g) : m \in BoundedSeq(Entries, MaxLen), g \in GroupMaps}

\* profile maps: none, one profile of any name, or "default" beside a shorter "p"
ProfileMaps(Profiles, ShortProfiles) ==
    SmallMaps(ProfileNames, Profiles)
    \cup {(S_default :> a) @@ (P_P :> b) : a \in Profiles, b \in ShortProfiles}

Gen0Stores ==
    {ModData_v0_0_0(a, p) :
        a \in ProfileNames,
        p \in ProfileMaps(Gen0Profiles,
                {ModProfile_v0_0_0(m) : m \in BoundedSeq(ModConfigs, MaxLen - 1)})}
Gen1Stores ==
    {ModData_v0_1_0(a, p, g) :
        a \in ProfileNames,
        p \in ProfileMaps(Gen1Profiles,
                {ModProfile_v0_1_0(m) : m \in BoundedSeq(Entries, MaxLen - 1)}),
        g \in GroupMaps}

MigInputs ==
    {Versioned("ModData", 0, s) : s \in Gen0Stores}
    \cup {Versioned("ModData", 1, s) : s \in Gen1Stores}
    \cup {Versioned("ModProfile", 0, p) : p \in Gen0Profiles}
    \cup {Versioned("ModProfile", 1, p) : p \in Gen1Profiles}

---------------------------------------------------------------------------
(* Specification SpecMig: every From impl applied to every value of the    *)
(* previous generation, chained as the load path chains them.              *)

NoDisk == [mod_data_json |-> None, profiles_json |-> None]

GuiIdle ==
    /\ pending_deletion = None
    /\ create_folder_popup = None
    /\ rename_folder_popup = None

\* no load, save or query is under way
Quiet ==
    /\ maybe_versioned = None
    /\ tmp_file = None
    /\ last_op = None

InitMig ==
    /\ mig_in \in MigInputs
    /\ mig_cur = mig_in
    /\ disk = NoDisk
    /\ pc = "migrate"
    /\ fault = None
    /\ buf = None
    /\ mod_data = None
    /\ GuiIdle
    /\ Quiet
    /\ sorting_config = None

MigFrame ==
    UNCHANGED <<disk, pc, fault, buf, mod_data, pending_deletion, create_folder_popup,
                rename_folder_popup, mig_in, maybe_versioned, tmp_file, last_op,
                sorting_config>>

MigrateModData_0_1 ==
    /\ pc = "migrate" /\ mig_cur.type = "ModData" /\ mig_cur.gen = 0
    /\ mig_cur' = Versioned("ModData", 1, ModData_v0_1_0_from(mig_cur.v))
    /\ MigFrame

MigrateModData_1_2 ==
    /\ pc = "migrate" /\ mig_cur.type = "ModData" /\ mig_cur.gen = 1
    /\ mig_cur' = Versioned("ModData", 2, ModData_v0_2_0_from(mig_cur.v))
    /\ MigFrame

MigrateModProfile_0_1 ==
    /\ pc = "migrate" /\ mig_cur.type = "ModProfile" /\ mig_cur.gen = 0
    /\ mig_cur' = ModProfile_v0_1_0_from(mig_cur.v)
    /\ MigFrame

MigrateModProfile_1_2 ==
    /\ pc = "migrate" /\ mig_cur.type = "ModProfile" /\ mig_cur.gen = 1
    /\ mig_cur' = ModProfile_v0_2_0_from(mig_cur.v)
    /\ MigFrame

NextMig ==
    \/ MigrateModData_0_1
    \/ MigrateModData_1_2
    \/ MigrateModProfile_0_1
    \/ MigrateModProfile_1_2

SpecMig == InitMig /\ [][NextMig]_vars

---------------------------------------------------------------------------
(* Specification SpecLoad: State::init over a universe of persisted        *)
(* documents: every bounded body of every generation, under every version  *)
(* tag, under no tag, and bytes that are not JSON.                         *)

DocGen0Stores ==
    {ModData_v0_0_0(a, p) : a \in ProfileNames, p \in SmallMaps(ProfileNames, Gen0Profiles)}
DocGen1Stores ==
    {ModData_v0_1_0(a, p, g) :
        a \in ProfileNames, p \in SmallMaps(ProfileNames, Gen1Profiles), g \in GroupMaps}
DocGen2Stores ==
    {ModData_v0_2_0(a, p) : a \in ProfileNames, p \in SmallMaps(ProfileNames, Gen2Profiles)}

KnownTags == {"0.0.0", "0.1.0", "0.2.0"}
Tags == KnownTags \cup {"0.3.0"}

DocBodies ==
    {SerModData_v0_0_0(s) : s \in DocGen0Stores}
    \cup {SerModData_v0_1_0(s) : s \in DocGen1Stores}
    \cup {SerModData_v0_2_0(s) : s \in DocGen2Stores}

Docs ==
    DocBodies \cup {WithTag(b, t) : b \in DocBodies, t \in Tags} \cup {Garbage}

\* a legacy profiles.json as the pre-versioning program wrote it
LegacyDoc ==
    SerModData_v0_0_0(ModData_v0_0_0(P_P,
        [n \in {P_P} |-> ModProfile_v0_0_0(<<Mod_B, Mod_A>>)]))

LoadDisks ==
    {[mod_data_json |-> Some(d), profiles_json |-> None] : d \in Docs \cup {Unreadable}}
    \cup {[mod_data_json |-> None, profiles_json |-> Some(d)] : d \in Docs \cup {Unreadable}}
    \cup {[mod_data_json |-> Some(d), profiles_json |-> Some(LegacyDoc)] :
            d \in Docs \cup {Unreadable}}
    \cup {NoDisk}

InitLoad ==
    /\ disk \in LoadDisks
    /\ pc = "start"
    /\ fault = None
    /\ buf = None
    /\ mod_data = None
    /\ GuiIdle
    /\ Quiet
    /\ sorting_config = None
    /\ mig_in = None
    /\ mig_cur = None

NextLoad ==
    \/ ReadModData
    \/ MigrateModData
    \/ InitSave
    \/ FirstFrame

SpecLoad == InitLoad /\ [][NextLoad]_vars

---------------------------------------------------------------------------
(* The profile editor: the mutations of gui/mod.rs.  Each action is the    *)
(* whole handler of one click, the save that ends it included.             *)

MaxRows == 3

PendingMod(mod_name, row_index) ==
    [kind |-> "Mod", mod_name |-> mod_name, row_index |-> row_index]
PendingProfile(profile_name) == [kind |-> "Profile", profile_name |-> profile_name]
PendingFolder(folder_name) == [kind |-> "Folder", folder_name |-> folder_name]
PendingFolderMod(folder_name, mod_index, mod_name) ==
    [kind |-> "FolderMod", folder_name |-> folder_name, mod_index |-> mod_index,
     mod_name |-> mod_name]

\* the store behind self.state.mod_data, through Deref
Store == Deref(Unwrap(mod_data))
HasActive(md) == md.active_profile \in DOMAIN md.profiles
ActiveProfile(md) == md.profiles[md.active_profile]

\* a mutation through DerefMut, then self.state.mod_data.save().unwrap()
Mutate(md) ==
    LET v == [Unwrap(mod_data) EXCEPT !.md = md]
    IN  mod_data' = Some(v) /\ disk' = SaveModData(disk, v)

\* the change of a profile with folders that are global to the store
MutateActive_global_groups(profile) ==
    Mutate([Store EXCEPT !.profiles =
        [n \in DOMAIN Store.profiles |->
            IF n = Store.active_profile THEN profile
            ELSE [Store.profiles[n] EXCEPT !.groups = profile.groups]]])

\* profiles.get_mut(&active_profile) followed by a change of that profile
MutateActive(profile) ==
    Mutate([Store EXCEPT !.profiles[Store.active_profile] = profile])

\* save() of an unchanged store
SaveOnly == Mutate(Store)

\* show_create_folder_popup, should_create: insert the group, push the reference
create_folder(profile, folder_name) ==
    ModProfile_v0_2_0(
        Append(profile.mods, Group(folder_name, TRUE)),
        MapInsert(profile.groups, folder_name, ModGroup(<<>>, None)))

\* show_rename_folder_popup, should_rename: move the group to the new key and
\* rewrite the references
rename_folder(profile, old_name, new_name) ==
    ModProfile_v0_2_0(
        [i \in 1..Len(profile.mods) |->
            IF IsGroup(profile.mods[i]) /\ profile.mods[i].group_name = old_name
            THEN [profile.mods[i] EXCEPT !.group_name = new_name]
            ELSE profile.mods[i]],
        IF old_name \in DOMAIN profile.groups
        THEN MapInsert(MapRemove(profile.groups, old_name), new_name,
                       profile.groups[old_name])
        ELSE profile.groups)

\* show_rename_folder_popup: name_valid for the text buffer of a popup opened on
\* old_name
rename_name_valid(profile, old_name, buffer) ==
    LET name_exists == buffer # old_name /\ buffer \in DOMAIN profile.groups
    IN  Trim(buffer) # <<>> /\ ~name_exists

\* show_rename_folder_popup: the profile after Rename is pressed with the text
\* buffer (the button does nothing unless name_valid)
rename_pressed(profile, old_name, buffer) ==
    IF rename_name_valid(profile, old_name, buffer)
    THEN rename_folder(profile, old_name, Trim(buffer))
    ELSE profile

\* variant that forgets to strip the references to the deleted folder
delete_folder_keep_refs(profile, folder_name) ==
    LET moved == IF folder_name \in DOMAIN profile.groups
                 THEN [i \in 1..Len(profile.groups[folder_name].mods) |->
                          Individual(profile.groups[folder_name].mods[i])]
                 ELSE <<>>
    IN  ModProfile_v0_2_0(profile.mods \o moved, MapRemove(profile.groups, folder_name))

\* variant that pops the folder's mods, so that they arrive in reverse order
delete_folder_reverse_members(profile, folder_name) ==
    LET members == IF folder_name \in DOMAIN profile.groups
                   THEN profile.groups[folder_name].mods
                   ELSE <<>>
        moved == [i \in 1..Len(members) |-> Individual(members[Len(members) + 1 - i])]
        keep(item) == ~(IsGroup(item) /\ item.group_name = folder_name)
    IN  ModProfile_v0_2_0(SelectSeq(profile.mods \o moved, keep),
                          MapRemove(profile.groups, folder_name))

\* perform_pending_deletion, Folder: the folder's mods go to the end of the root
\* list, then every reference to the folder is removed
delete_folder(profile, folder_name) ==
    LET moved == IF folder_name \in DOMAIN profile.groups
                 THEN [i \in 1..Len(profile.groups[folder_name].mods) |->
                          Individual(profile.groups[folder_name].mods[i])]
                 ELSE <<>>
        keep(item) == ~(IsGroup(item) /\ item.group_name = folder_name)
    IN  ModProfile_v0_2_0(SelectSeq(profile.mods \o moved, keep),
                          MapRemove(profile.groups, folder_name))

\* perform_pending_deletion, FolderMod: guarded removal inside the folder
delete_folder_mod(profile, folder_name, mod_index) ==
    IF folder_name \in DOMAIN profile.groups
       /\ mod_index < Len(profile.groups[folder_name].mods)
    THEN [profile EXCEPT !.groups[folder_name].mods = VecRemove(@, mod_index)]
    ELSE profile

\* variant that puts the mod in front of the folder's mods
move_mod_to_folder_front(profile, mod_index, folder_name) ==
    IF folder_name \in DOMAIN profile.groups
       /\ mod_index < Len(profile.mods)
       /\ ~IsGroup(profile.mods[mod_index + 1])
    THEN [profile |->
            ModProfile_v0_2_0(
                VecRemove(profile.mods, mod_index),
                [profile.groups EXCEPT ![folder_name].mods =
                    <<profile.mods[mod_index + 1].mc>> \o @]),
          needs_save |-> TRUE]
    ELSE [profile |-> profile, needs_save |-> FALSE]

\* ui_profile, move_mod_to_folder.  Yields the profile and whether it changed.
move_mod_to_folder(profile, mod_index, folder_name) ==
    IF folder_name \in DOMAIN profile.groups
       /\ mod_index < Len(profile.mods)
       /\ ~IsGroup(profile.mods[mod_index + 1])
    THEN [profile |->
            ModProfile_v0_2_0(
                VecRemove(profile.mods, mod_index),
                [profile.groups EXCEPT ![folder_name].mods =
                    Append(@, profile.mods[mod_index + 1].mc)]),
          needs_save |-> TRUE]
    ELSE [profile |-> profile, needs_save |-> FALSE]

\* ui_profile, move_mod_from_folder
move_mod_from_folder(profile, folder_name, mod_index) ==
    IF folder_name \in DOMAIN profile.groups
       /\ mod_index < Len(profile.groups[folder_name].mods)
    THEN [profile |->
            ModProfile_v0_2_0(
                Append(profile.mods,
                       Individual(profile.groups[folder_name].mods[mod_index + 1])),
                [profile.groups EXCEPT ![folder_name].mods = VecRemove(@, mod_index)]),
          needs_save |-> TRUE]
    ELSE [profile |-> profile, needs_save |-> FALSE]

\* variant that takes the mod out of its folder before it looks for the target
move_mod_between_folders_remove_first(profile, from_folder, mod_index, to_folder) ==
    IF from_folder \in DOMAIN profile.groups
       /\ mod_index < Len(profile.groups[from_folder].mods)
    THEN LET mod_config == profile.groups[from_folder].mods[mod_index + 1]
             removed == [profile.groups EXCEPT ![from_folder].mods =
                            VecRemove(@, mod_index)]
         IN  [profile |->
                ModProfile_v0_2_0(
                    profile.mods,
                    IF to_folder \in DOMAIN profile.groups
                    THEN [removed EXCEPT ![to_folder].mods = Append(@, mod_config)]
                    ELSE removed),
              needs_save |-> TRUE]
    ELSE [profile |-> profile, needs_save |-> FALSE]

\* ui_profile, move_mod_between_folders
move_mod_between_folders(profile, from_folder, mod_index, to_folder) ==
    IF from_folder \in DOMAIN profile.groups /\ to_folder \in DOMAIN profile.groups
       /\ mod_index < Len(profile.groups[from_folder].mods)
    THEN LET mod_config == profile.groups[from_folder].mods[mod_index + 1]
             removed == [profile.groups EXCEPT ![from_folder].mods =
                            VecRemove(@, mod_index)]
         IN  [profile |->
                ModProfile_v0_2_0(
                    profile.mods,
                    [removed EXCEPT ![to_folder].mods = Append(@, mod_config)]),
              needs_save |-> TRUE]
    ELSE [profile |-> profile, needs_save |-> FALSE]

Running == pc = "running"

\* the process state the GUI handlers leave alone
ProcessUnchanged ==
    UNCHANGED <<pc, fault, buf, mig_in, mig_cur, maybe_versioned, tmp_file, last_op,
                sorting_config>>
StoreUnchanged == UNCHANGED <<disk, mod_data>>

\* text a user types into a folder-name field
FolderBuffers == {<<"a">>, <<" ", "a">>, <<"b">>, <<" ">>}

\* App::update: the create-folder button
OpenCreateFolderPopup ==
    /\ Running
    /\ create_folder_popup' = Some(<<>>)
    /\ StoreUnchanged /\ ProcessUnchanged
    /\ UNCHANGED <<pending_deletion, rename_folder_popup>>

\* show_create_folder_popup: the frame in which the user, having edited the text
\* to buffer, presses Cancel or Create (Create is disabled unless name_valid)
ShowCreateFolderPopup ==
    /\ Running
    /\ create_folder_popup # None
    /\ \E buffer \in FolderBuffers \cup {Unwrap(create_folder_popup)},
          click \in {"cancel", "create"} :
          LET name_exists == HasActive(Store) /\ buffer \in DOMAIN ActiveProfile(Store).groups
              name_valid == Trim(buffer) # <<>> /\ ~name_exists
              folder_name == Trim(buffer)
          IN  CASE click = "cancel" ->
                      /\ create_folder_popup' = None
                      /\ StoreUnchanged
                [] click = "create" ->
                      /\ name_valid
                      /\ create_folder_popup' = None
                      /\ IF HasActive(Store)
                         THEN /\ Len(ActiveProfile(Store).mods) < MaxRows
                              /\ MutateActive(create_folder(ActiveProfile(Store), folder_name))
                         ELSE SaveOnly
    /\ ProcessUnchanged
    /\ UNCHANGED <<pending_deletion, rename_folder_popup>>

\* ui_profile: the rename button of a folder row
RequestRenameFolder ==
    /\ Running
    /\ HasActive(Store)
    /\ \E i \in 1..Len(ActiveProfile(Store).mods) :
          /\ IsGroup(ActiveProfile(Store).mods[i])
          /\ rename_folder_popup' =
                Some(<<ActiveProfile(Store).mods[i].group_name,
                       ActiveProfile(Store).mods[i].group_name>>)
    /\ StoreUnchanged /\ ProcessUnchanged
    /\ UNCHANGED <<pending_deletion, create_folder_popup>>

\* show_rename_folder_popup: the frame in which the user, having edited the text
\* to buffer, presses Cancel or Rename (Rename is disabled unless name_valid)
ShowRenameFolderPopup ==
    /\ Running
    /\ rename_folder_popup # None
    /\ \E buffer \in FolderBuffers \cup {Unwrap(rename_folder_popup)[2]},
          click \in {"cancel", "rename"} :
          LET old_name == Unwrap(rename_folder_popup)[1]
              name_exists == /\ buffer # old_name
                             /\ HasActive(Store)
                             /\ buffer \in DOMAIN ActiveProfile(Store).groups
              name_valid == Trim(buffer) # <<>> /\ ~name_exists
              new_name == Trim(buffer)
          IN  CASE click = "cancel" ->
                      /\ rename_folder_popup' = None
                      /\ StoreUnchanged
                [] click = "rename" ->
                      /\ name_valid
                      /\ rename_folder_popup' = None
                      /\ IF HasActive(Store)
                         THEN MutateActive(rename_folder(ActiveProfile(Store),
                                                         old_name, new_name))
                         ELSE SaveOnly
    /\ ProcessUnchanged
    /\ UNCHANGED <<pending_deletion, create_folder_popup>>

\* ui_profile: the delete button of a root row (a mod or a folder)
RequestDeleteRow ==
    /\ Running
    /\ HasActive(Store)
    /\ \E row_index \in 0..(Len(ActiveProfile(Store).mods) - 1) :
          LET item == ActiveProfile(Store).mods[row_index + 1]
          IN  pending_deletion' =
                IF IsGroup(item)
                THEN Some(PendingFolder(item.group_name))
                ELSE Some(PendingMod(item.mc.spec, row_index))
    /\ StoreUnchanged /\ ProcessUnchanged
    /\ UNCHANGED <<create_folder_popup, rename_folder_popup>>

\* the folders whose rows are rendered with their content
RenderedFolders(profile) ==
    {profile.mods[i].group_name : i \in {j \in 1..Len(profile.mods) :
        IsGroup(profile.mods[j]) /\ profile.mods[j].group_name \in DOMAIN profile.groups}}

\* ui_profile: the delete button of a mod inside a folder
RequestDeleteFolderMod ==
    /\ Running
    /\ HasActive(Store)
    /\ \E folder_name \in RenderedFolders(ActiveProfile(Store)) :
          \E mod_index \in 0..(Len(ActiveProfile(Store).groups[folder_name].mods) - 1) :
              pending_deletion' = Some(PendingFolderMod(folder_name, mod_index,
                  ActiveProfile(Store).groups[folder_name].mods[mod_index + 1].spec))
    /\ StoreUnchanged /\ ProcessUnchanged
    /\ UNCHANGED <<create_folder_popup, rename_folder_popup>>

\* App::update: the profile selector asks for the deletion of a profile
RequestDeleteProfile ==
    /\ Running
    /\ \E profile_name \in DOMAIN Store.profiles :
          pending_deletion' = Some(PendingProfile(profile_name))
    /\ StoreUnchanged /\ ProcessUnchanged
    /\ UNCHANGED <<create_folder_popup, rename_folder_popup>>

\* perform_pending_deletion, Profile: the store after the removal
delete_profile(md, profile_name) ==
    LET profiles == MapRemove(md.profiles, profile_name)
    IN  ModData_v0_2_0(
            IF md.active_profile = profile_name /\ FirstKey(profiles) # None
            THEN Unwrap(FirstKey(profiles))
            ELSE md.active_profile,
            profiles)

\* perform_pending_deletion
perform_pending_deletion ==
    LET pending == Unwrap(pending_deletion)
    IN  CASE pending.kind = "Mod" ->
                IF ~HasActive(Store)
                THEN StoreUnchanged /\ pending_deletion' = None /\ ProcessUnchanged
                ELSE IF pending.row_index < Len(ActiveProfile(Store).mods)
                     THEN /\ MutateActive([ActiveProfile(Store) EXCEPT
                                !.mods = VecRemove(@, pending.row_index)])
                          /\ pending_deletion' = None
                          /\ ProcessUnchanged
                     ELSE \* Vec::remove panics on an index out of bounds
                          /\ pc' = "panicked"
                          /\ fault' = Some("Vec::remove")
                          /\ StoreUnchanged
                          /\ UNCHANGED <<pending_deletion, buf, mig_in, mig_cur, maybe_versioned,
                                         tmp_file, last_op, sorting_config>>
          [] pending.kind = "Profile" ->
                /\ Mutate(delete_profile(Store, pending.profile_name))
                /\ pending_deletion' = None
                /\ ProcessUnchanged
          [] pending.kind = "Folder" ->
                /\ IF HasActive(Store)
                   THEN MutateActive(delete_folder(ActiveProfile(Store),
                                                   pending.folder_name))
                   ELSE SaveOnly
                /\ pending_deletion' = None
                /\ ProcessUnchanged
          [] pending.kind = "FolderMod" ->
                /\ IF HasActive(Store)
                   THEN MutateActive(delete_folder_mod(ActiveProfile(Store),
                            pending.folder_name, pending.mod_index))
                   ELSE SaveOnly
                /\ pending_deletion' = None
                /\ ProcessUnchanged

\* show_delete_confirmation: the dialog is answered (or confirmation is disabled,
\* which performs the deletion at once)
ShowDeleteConfirmation ==
    /\ Running
    /\ pending_deletion # None
    /\ \E click \in {"cancelled", "confirmed"} :
          IF click = "cancelled"
          THEN pending_deletion' = None /\ StoreUnchanged /\ ProcessUnchanged
          ELSE perform_pending_deletion
    /\ UNCHANGED <<create_folder_popup, rename_folder_popup>>

\* the end of ui_profile after a move: save when something changed
AfterMove(r) ==
    /\ IF r.needs_save THEN MutateActive(r.profile) ELSE StoreUnchanged
    /\ ProcessUnchanged
    /\ UNCHANGED <<pending_deletion, create_folder_popup, rename_folder_popup>>

\* ui_profile: the move-to-folder dropdown of a root mod
MoveModToFolder ==
    /\ Running
    /\ HasActive(Store)
    /\ \E mod_index \in 0..(Len(ActiveProfile(Store).mods) - 1),
          folder_name \in DOMAIN ActiveProfile(Store).groups :
          /\ ~IsGroup(ActiveProfile(Store).mods[mod_index + 1])
          /\ AfterMove(move_mod_to_folder(ActiveProfile(Store), mod_index, folder_name))

\* ui_profile: "(root)" in the dropdown of a mod inside a folder
MoveModFromFolder ==
    /\ Running
    /\ HasActive(Store)
    /\ Len(ActiveProfile(Store).mods) < MaxRows
    /\ \E folder_name \in RenderedFolders(ActiveProfile(Store)) :
          \E mod_index \in 0..(Len(ActiveProfile(Store).groups[folder_name].mods) - 1) :
              AfterMove(move_mod_from_folder(ActiveProfile(Store), folder_name, mod_index))

\* ui_profile: another folder in the dropdown of a mod inside a folder
MoveModBetweenFolders ==
    /\ Running
    /\ HasActive(Store)
    /\ \E from_folder \in RenderedFolders(ActiveProfile(Store)) :
          \E mod_index \in 0..(Len(ActiveProfile(Store).groups[from_folder].mods) - 1),
             to_folder \in (DOMAIN ActiveProfile(Store).groups) \ {from_folder} :
              AfterMove(move_mod_between_folders(ActiveProfile(Store), from_folder,
                                                 mod_index, to_folder))

\* ModData::remove_active_profile
RemoveActiveProfile ==
    /\ Running
    /\ LET profiles == MapRemove(Store.profiles, Store.active_profile)
       IN  IF FirstKey(profiles) # None
           THEN /\ mod_data' = Some([Unwrap(mod_data) EXCEPT
                        !.md = ModData_v0_2_0(Unwrap(FirstKey(profiles)), profiles)])
                /\ UNCHANGED <<disk, pc, fault>>
           ELSE \* keys().next().unwrap() on an empty map
                /\ mod_data' = Some([Unwrap(mod_data) EXCEPT
                        !.md = ModData_v0_2_0(Store.active_profile, profiles)])
                /\ pc' = "panicked"
                /\ fault' = Some("remove_active_profile")
                /\ UNCHANGED disk
    /\ UNCHANGED <<buf, mig_in, mig_cur, pending_deletion, create_folder_popup,
                   rename_folder_popup, maybe_versioned, tmp_file, last_op, sorting_config>>

---------------------------------------------------------------------------
(* Specification Spec: the application from State::init on, over a few     *)
(* contents of the config directory, then the GUI.                         *)

\* mod_data.json of the current generation: two profiles, one folder
Disk_gen2 ==
    [mod_data_json |-> Some(SerVersionAnnotatedModData(V0_2_0(ModData_v0_2_0(
        S_default,
        (S_default :> ModProfile_v0_2_0(
                          <<Individual(Mod_A), Group(G_A, TRUE)>>,
                          (G_A :> ModGroup(<<Mod_B>>, None)))
         @@ P_P :> ModProfile_v0_2_0(<<Individual(Mod_B)>>, EmptyMap)))))),
     profiles_json |-> None]

\* an untagged legacy profiles.json with one profile
Disk_legacy ==
    [mod_data_json |-> None,
     profiles_json |-> Some(SerModData_v0_0_0(ModData_v0_0_0(
        P_P, (P_P :> ModProfile_v0_0_0(<<Mod_A, Mod_B>>)))))]

\* mod_data.json tagged 0.0.0
Disk_gen0 ==
    [mod_data_json |-> Some(SerVersionAnnotatedModData(V0_0_0(ModData_v0_0_0(
        S_default, (S_default :> ModProfile_v0_0_0(<<Mod_B>>)))))),
     profiles_json |-> None]

\* mod_data.json of generation 1: a disabled folder with a priority override
Disk_gen1 ==
    [mod_data_json |-> Some(SerVersionAnnotatedModData(V0_1_0(ModData_v0_1_0(
        P_P,
        (P_P :> ModProfile_v0_1_0(<<Group(G_A, FALSE), Individual(Mod_B)>>)),
        (G_A :> ModGroup(<<Mod_A>>, Some(7))))))),
     profiles_json |-> None]

Disk_garbage == [mod_data_json |-> Some(Garbage), profiles_json |-> None]

InitDisks == {NoDisk, Disk_gen2, Disk_legacy, Disk_gen0, Disk_gen1, Disk_garbage}

Init ==
    /\ disk \in InitDisks
    /\ pc = "start"
    /\ fault = None
    /\ buf = None
    /\ mod_data = None
    /\ GuiIdle
    /\ Quiet
    /\ sorting_config = None
    /\ mig_in = None
    /\ mig_cur = None

Next ==
    \/ ReadModData
    \/ MigrateModData
    \/ InitSave
    \/ FirstFrame
    \/ OpenCreateFolderPopup
    \/ ShowCreateFolderPopup
    \/ RequestRenameFolder
    \/ ShowRenameFolderPopup
    \/ RequestDeleteRow
    \/ RequestDeleteFolderMod
    \/ RequestDeleteProfile
    \/ ShowDeleteConfirmation
    \/ MoveModToFolder
    \/ MoveModFromFolder
    \/ MoveModBetweenFolders
    \/ RemoveActiveProfile

Spec == Init /\ [][Next]_vars

---------------------------------------------------------------------------
(* Specification SpecSave: State::init with its save taken step by step,   *)
(* a crash possible between any two steps, and the program started again.  *)

\* every mod_data.json of InitDisks beside every profiles.json of InitDisks
SaveDisks ==
    {[mod_data_json |-> a.mod_data_json, profiles_json |-> b.profiles_json] :
        a \in InitDisks, b \in InitDisks}

InitSaving ==
    /\ disk \in SaveDisks
    /\ pc = "start"
    /\ fault = None
    /\ buf = None
    /\ mod_data = None
    /\ GuiIdle
    /\ Quiet
    /\ sorting_config = None
    /\ mig_in = None
    /\ mig_cur = None

NextSave ==
    \/ ReadModData
    \/ MigrateModData
    \/ SaveCreateTemp
    \/ SaveWrite
    \/ SavePersist
    \/ Crash
    \/ Restart

SpecSave == InitSaving /\ [][NextSave]_vars

---------------------------------------------------------------------------
(* Traversal and queries: impl ModData!["0.2.0"].  A visitor closure f is  *)
(* modelled by the sequence of the arguments it is called with.            *)

\* profiles.get(profile).unwrap() on a profile that does not exist
UnwrapNone == [ok |-> FALSE, err |-> "Option::unwrap"]

\* the closures handed over as g (on the Group entry's flag) and p (on a mod)
G_true == [enabled \in BOOLEAN |-> TRUE]
G_identity == [enabled \in BOOLEAN |-> enabled]
P_true == [mc \in ModConfigs |-> TRUE]
P_enabled == [mc \in ModConfigs |-> mc.enabled]

\* "for mc in &group.mods { if p(mc) { f(mc); } }"
RECURSIVE VisitGroupMods(_, _, _)
VisitGroupMods(mods, p, calls) ==
    IF mods = <<>> THEN calls
    ELSE VisitGroupMods(Tail(mods), p,
             IF p[Head(mods)] THEN Append(calls, Head(mods)) ELSE calls)

\* variant that descends into a group whatever g answers
RECURSIVE VisitMods_ignore_g(_, _, _, _, _)
VisitMods_ignore_g(mods, groups, g, p, calls) ==
    IF mods = <<>> THEN calls
    ELSE VisitMods_ignore_g(Tail(mods), groups, g, p,
             IF IsGroup(Head(mods))
             THEN IF Head(mods).group_name \in DOMAIN groups
                  THEN VisitGroupMods(groups[Head(mods).group_name].mods, p, calls)
                  ELSE calls
             ELSE IF p[Head(mods).mc] THEN Append(calls, Head(mods).mc) ELSE calls)

\* "for ref mod_or_group in &prof.mods { match mod_or_group { .. } }"
RECURSIVE VisitMods(_, _, _, _, _)
VisitMods(mods, groups, g, p, calls) ==
    IF mods = <<>> THEN calls
    ELSE VisitMods(Tail(mods), groups, g, p,
             IF IsGroup(Head(mods))
             THEN IF g[Head(mods).enabled] /\ Head(mods).group_name \in DOMAIN groups
                  THEN VisitGroupMods(groups[Head(mods).group_name].mods, p, calls)
                  ELSE calls
             ELSE IF p[Head(mods).mc] THEN Append(calls, Head(mods).mc) ELSE calls)

\* ModData::for_each_mod_predicate: the calls of f
for_each_mod_predicate(md, profile, g, p) ==
    IF profile \in DOMAIN md.profiles
    THEN Ok(VisitMods(md.profiles[profile].mods, md.profiles[profile].groups, g, p, <<>>))
    ELSE UnwrapNone

\* variant that skips the groups whose entry is disabled
for_each_mod_skip_disabled(md, profile) ==
    for_each_mod_predicate(md, profile, G_identity, P_true)

\* ModData::for_each_mod
for_each_mod(md, profile) == for_each_mod_predicate(md, profile, G_true, P_true)

\* variant that does not look at a mod's own flag
for_each_enabled_mod_any_flag(md, profile) ==
    for_each_mod_predicate(md, profile, G_identity, P_true)

\* ModData::for_each_enabled_mod
for_each_enabled_mod(md, profile) ==
    for_each_mod_predicate(md, profile, G_identity, P_enabled)

\* variant that pairs every mod with its own priority
RECURSIVE EnabledGroupMods_own_priority(_, _, _)
EnabledGroupMods_own_priority(mods, override_priority, result) ==
    IF mods = <<>> THEN result
    ELSE EnabledGroupMods_own_priority(Tail(mods), override_priority,
             IF Head(mods).enabled
             THEN Append(result, <<Head(mods), Head(mods).priority>>)
             ELSE result)

\* get_enabled_mods_with_priority: "for mc in &group.mods { if mc.enabled { .. } }"
RECURSIVE EnabledGroupMods(_, _, _)
EnabledGroupMods(mods, override_priority, result) ==
    IF mods = <<>> THEN result
    ELSE EnabledGroupMods(Tail(mods), override_priority,
             IF Head(mods).enabled
             THEN Append(result,
                         <<Head(mods),
                           IF IsSome(override_priority) THEN Unwrap(override_priority)
                           ELSE Head(mods).priority>>)
             ELSE result)

\* get_enabled_mods_with_priority: "for mod_or_group in &prof.mods { .. }"
RECURSIVE EnabledMods(_, _, _)
EnabledMods(mods, groups, result) ==
    IF mods = <<>> THEN result
    ELSE EnabledMods(Tail(mods), groups,
             IF IsGroup(Head(mods))
             THEN IF Head(mods).enabled /\ Head(mods).group_name \in DOMAIN groups
                  THEN EnabledGroupMods(groups[Head(mods).group_name].mods,
                           groups[Head(mods).group_name].priority_override, result)
                  ELSE result
             ELSE IF Head(mods).mc.enabled
                  THEN Append(result, <<Head(mods).mc, Head(mods).mc.priority>>)
                  ELSE result)

\* ModData::get_enabled_mods_with_priority
get_enabled_mods_with_priority(md, profile) ==
    IF profile \in DOMAIN md.profiles
    THEN Ok(EnabledMods(md.profiles[profile].mods, md.profiles[profile].groups, <<>>))
    ELSE UnwrapNone

\* what any_mod hands to f: the mod and, for a member of a group, a flag
AnyArgs == ModConfigs \X {None, Some(TRUE), Some(FALSE)}

\* predicates f: the one of the test, one that never holds, and those that hold
\* of a single argument
AnyPredicates ==
    {[a \in AnyArgs |-> a[1].required], [a \in AnyArgs |-> FALSE]}
    \cup {[a \in AnyArgs |-> a = x] : x \in AnyArgs}

Found(calls) == [ret |-> TRUE, calls |-> calls]
NotFound(calls) == [ret |-> FALSE, calls |-> calls]

\* variant that hands over the member's own flag
RECURSIVE AnyGroupMod_own_flag(_, _, _, _)
AnyGroupMod_own_flag(mods, enabled, f, calls) ==
    IF mods = <<>> THEN NotFound(calls)
    ELSE IF f[<<Head(mods), Some(Head(mods).enabled)>>]
         THEN Found(Append(calls, <<Head(mods), Some(Head(mods).enabled)>>))
         ELSE AnyGroupMod_own_flag(Tail(mods), enabled, f,
                  Append(calls, <<Head(mods), Some(Head(mods).enabled)>>))

\* any_mod: g.mods.iter().any(|mc| f(mc, Some(*enabled)))
RECURSIVE AnyGroupMod(_, _, _, _)
AnyGroupMod(mods, enabled, f, calls) ==
    IF mods = <<>> THEN NotFound(calls)
    ELSE IF f[<<Head(mods), Some(enabled)>>]
         THEN Found(Append(calls, <<Head(mods), Some(enabled)>>))
         ELSE AnyGroupMod(Tail(mods), enabled, f,
                  Append(calls, <<Head(mods), Some(enabled)>>))

\* any_mod: prof.mods.iter().any(|m| match m { .. }), from the entry after one
\* whose closure returned r
RECURSIVE AnyEntry(_, _, _, _)
AnyEntryAfter(r, mods, groups, f) ==
    IF r.ret THEN r ELSE AnyEntry(mods, groups, f, r.calls)

AnyEntry(mods, groups, f, calls) ==
    IF mods = <<>> THEN NotFound(calls)
    ELSE AnyEntryAfter(
             IF IsGroup(Head(mods))
             THEN IF Head(mods).group_name \in DOMAIN groups
                  THEN AnyGroupMod(groups[Head(mods).group_name].mods,
                                   Head(mods).enabled, f, calls)
                  ELSE NotFound(calls)
             ELSE IF f[<<Head(mods).mc, None>>]
                  THEN Found(Append(calls, <<Head(mods).mc, None>>))
                  ELSE NotFound(Append(calls, <<Head(mods).mc, None>>)),
             Tail(mods), groups, f)

\* ModData::any_mod: what it returns and the calls of f
any_mod(md, profile, f) ==
    IF profile \in DOMAIN md.profiles
    THEN Ok(AnyEntry(md.profiles[profile].mods, md.profiles[profile].groups, f, <<>>))
    ELSE UnwrapNone

---------------------------------------------------------------------------
(* The folder rows of the profile editor: the enabled switch and the       *)
(* priority override controls (ui_profile, ui_item).                       *)

\* variant whose switch also writes the new flag into every member of the folder
toggle_folder_write_members(profile, row_index) ==
    LET item == profile.mods[row_index + 1]
        toggled == [profile EXCEPT !.mods[row_index + 1].enabled = ~@]
    IN  IF item.group_name \in DOMAIN profile.groups
        THEN [toggled EXCEPT !.groups[item.group_name].mods =
                 [k \in 1..Len(@) |-> [@[k] EXCEPT !.enabled = ~item.enabled]]]
        ELSE toggled

\* ui_item, Group: toggle_switch(enabled) has changed the flag of the entry
toggle_folder(profile, row_index) ==
    [profile EXCEPT !.mods[row_index + 1].enabled = ~@]

\* variant whose checkbox also resets the stored priority of the members
priority_override_checkbox_write_members(profile, folder_name) ==
    [profile EXCEPT
        !.groups[folder_name].priority_override = IF IsSome(@) THEN None ELSE Some(0),
        !.groups[folder_name].mods = [k \in 1..Len(@) |-> [@[k] EXCEPT !.priority = 0]]]

\* the "Priority override:" checkbox has changed
priority_override_checkbox(profile, folder_name) ==
    [profile EXCEPT
        !.groups[folder_name].priority_override = IF IsSome(@) THEN None ELSE Some(0)]

\* the DragValue bound to the override has changed it to value
priority_override_drag(profile, folder_name, value) ==
    [profile EXCEPT !.groups[folder_name].priority_override = Some(value)]

\* values a user drags the override to
OverrideValues == {7}

\* what a query leaves alone: everything but last_op and, on a panic, pc and fault
QueryFrame ==
    UNCHANGED <<disk, buf, mod_data, pending_deletion, create_folder_popup,
                rename_folder_popup, mig_in, mig_cur, maybe_versioned, tmp_file,
                sorting_config>>

\* a query takes &self and answers from the store alone, so it is asked of each
\* store once: from the state its construction or its last control left
Fresh == last_op = None \/ "ret" \notin DOMAIN last_op

\* the end of a query: its record, or the panic of unwrap()
Answer(fn, profile, r) ==
    /\ IF r.ok
       THEN /\ last_op' = [fn |-> fn, profile |-> profile, ret |-> r.v]
            /\ UNCHANGED <<pc, fault>>
       ELSE /\ last_op' = [fn |-> fn, profile |-> profile]
            /\ pc' = "panicked"
            /\ fault' = Some(r.err)
    /\ QueryFrame

ForEachMod ==
    /\ Running
    /\ Fresh
    /\ \E profile \in ProfileNames :
          Answer("for_each_mod", profile, for_each_mod(Store, profile))

ForEachEnabledMod ==
    /\ Running
    /\ Fresh
    /\ \E profile \in ProfileNames :
          Answer("for_each_enabled_mod", profile, for_each_enabled_mod(Store, profile))

GetEnabledModsWithPriority ==
    /\ Running
    /\ Fresh
    /\ \E profile \in ProfileNames :
          Answer("get_enabled_mods_with_priority", profile,
                 get_enabled_mods_with_priority(Store, profile))

AnyMod ==
    /\ Running
    /\ Fresh
    /\ \E profile \in ProfileNames, f \in AnyPredicates :
          \E r \in {any_mod(Store, profile, f)} :
              /\ IF r.ok
                 THEN /\ last_op' = [fn |-> "any_mod", profile |-> profile, f |-> f,
                                     ret |-> r.v.ret, calls |-> r.v.calls]
                      /\ UNCHANGED <<pc, fault>>
                 ELSE /\ last_op' = [fn |-> "any_mod", profile |-> profile]
                      /\ pc' = "panicked"
                      /\ fault' = Some(r.err)
              /\ QueryFrame

\* what a control of a folder row leaves alone
ControlFrame ==
    UNCHANGED <<pc, fault, buf, pending_deletion, create_folder_popup,
                rename_folder_popup, mig_in, mig_cur, maybe_versioned, tmp_file,
                sorting_config>>

\* ui_item: the enabled switch of a folder row; ui_profile saves at its end
ToggleFolder ==
    /\ Running
    /\ HasActive(Store)
    /\ \E row_index \in 0..(Len(ActiveProfile(Store).mods) - 1) :
          /\ IsGroup(ActiveProfile(Store).mods[row_index + 1])
          /\ MutateActive(toggle_folder(ActiveProfile(Store), row_index))
          /\ last_op' = [fn |-> "toggle_folder", row_index |-> row_index]
    /\ ControlFrame

\* ui_item: the priority override checkbox of an open folder
PriorityOverrideCheckbox ==
    /\ Running
    /\ HasActive(Store)
    /\ \E folder_name \in RenderedFolders(ActiveProfile(Store)) :
          /\ MutateActive(priority_override_checkbox(ActiveProfile(Store), folder_name))
          /\ last_op' = [fn |-> "priority_override_checkbox", folder_name |-> folder_name]
    /\ ControlFrame

\* ui_item: the priority override value of an open folder
PriorityOverrideDrag ==
    /\ Running
    /\ HasActive(Store)
    /\ \E folder_name \in RenderedFolders(ActiveProfile(Store)), value \in OverrideValues :
          /\ IsSome(ActiveProfile(Store).groups[folder_name].priority_override)
          /\ Unwrap(ActiveProfile(Store).groups[folder_name].priority_override) # value
          /\ MutateActive(priority_override_drag(ActiveProfile(Store), folder_name, value))
          /\ last_op' = [fn |-> "priority_override_drag", folder_name |-> folder_name]
    /\ ControlFrame

---------------------------------------------------------------------------
(* Specification SpecView: the queries and the folder-row controls applied *)
(* to every bounded store with one profile.                                *)

ViewProfiles ==
    {ModProfile_v0_2_0(m, g) : m \in BoundedSeq(Entries, MaxRows), g \in GroupMaps}
ViewStores ==
    {ModData_v0_2_0(S_default, (S_default :> p)) : p \in ViewProfiles}

InitView ==
    /\ \E md \in ViewStores :
          /\ mod_data = Some(V0_2_0(md))
          /\ disk = SaveModData(NoDisk, V0_2_0(md))
    /\ pc = "running"
    /\ fault = None
    /\ buf = None
    /\ GuiIdle
    /\ Quiet
    /\ sorting_config = None
    /\ mig_in = None
    /\ mig_cur = None

NextView ==
    \/ ForEachMod
    \/ ForEachEnabledMod
    \/ GetEnabledModsWithPriority
    \/ AnyMod
    \/ ToggleFolder
    \/ PriorityOverrideCheckbox
    \/ PriorityOverrideDrag

SpecView == InitView /\ [][NextView]_vars

---------------------------------------------------------------------------
(* Specification SpecEdit: the relocation and deletion handlers of the     *)
(* editor applied to every bounded store with one profile.  The requests   *)
(* ctx.move_mod_to_folder, ctx.move_mod_from_folder and                    *)
(* ctx.move_mod_between_folders take any value, valid or not.              *)

\* what a relocation handler leaves alone
MoveFrame ==
    UNCHANGED <<pc, fault, buf, pending_deletion, create_folder_popup,
                rename_folder_popup, mig_in, mig_cur, maybe_versioned, tmp_file,
                sorting_config>>

\* the bound of SpecEdit: one relocation in a behaviour, applied to the store as
\* it was loaded or as deletions left it, and ending the behaviour
Unmoved == last_op = None

\* the end of a relocation handler: ctx.needs_save decides on the save
Relocated(r) == IF r.needs_save THEN MutateActive(r.profile) ELSE StoreUnchanged

\* ui_profile: the block run for ctx.move_mod_to_folder = Some((mod_index, folder_name))
HandleMoveModToFolder ==
    /\ Running
    /\ Unmoved
    /\ \E mod_index \in 0..MaxRows, folder_name \in GroupNames :
          /\ IF HasActive(Store)
             THEN Relocated(move_mod_to_folder(ActiveProfile(Store), mod_index, folder_name))
             ELSE StoreUnchanged
          /\ last_op' = [fn |-> "move_mod_to_folder", mod_index |-> mod_index,
                         folder_name |-> folder_name]
    /\ MoveFrame

\* ui_profile: the block run for ctx.move_mod_from_folder = Some((folder_name, mod_index))
HandleMoveModFromFolder ==
    /\ Running
    /\ Unmoved
    /\ \E folder_name \in GroupNames, mod_index \in 0..MaxRows :
          /\ IF HasActive(Store)
             THEN Relocated(move_mod_from_folder(ActiveProfile(Store), folder_name, mod_index))
             ELSE StoreUnchanged
          /\ last_op' = [fn |-> "move_mod_from_folder", folder_name |-> folder_name,
                         mod_index |-> mod_index]
    /\ MoveFrame

\* ui_profile: the block run for
\* ctx.move_mod_between_folders = Some((from_folder, mod_index, to_folder))
HandleMoveModBetweenFolders ==
    /\ Running
    /\ Unmoved
    /\ \E from_folder \in GroupNames, mod_index \in 0..MaxRows, to_folder \in GroupNames :
          /\ IF HasActive(Store)
             THEN Relocated(move_mod_between_folders(ActiveProfile(Store), from_folder,
                                                     mod_index, to_folder))
             ELSE StoreUnchanged
          /\ last_op' = [fn |-> "move_mod_between_folders", from_folder |-> from_folder,
                         mod_index |-> mod_index, to_folder |-> to_folder]
    /\ MoveFrame

NextEdit ==
    \/ HandleMoveModToFolder
    \/ HandleMoveModFromFolder
    \/ HandleMoveModBetweenFolders
    \/ Unmoved /\ RequestDeleteRow
    \/ Unmoved /\ RequestDeleteFolderMod
    \/ Unmoved /\ ShowDeleteConfirmation

SpecEdit == InitView /\ [][NextEdit]_vars

---------------------------------------------------------------------------
(* The sort comparator: sort_mods (gui/mod.rs).  An entry of the mod list  *)
(* is a ModOrGroup with the Option<&ModInfo> the store resolved for it.    *)

\* std::cmp::Ordering
Less == "Less"
Equal == "Equal"
Greater == "Greater"

\* Ordering::reverse
OrderingReverse(o) == IF o = Less THEN Greater ELSE IF o = Greater THEN Less ELSE Equal
\* Ordering::then
OrderingThen(o, next) == IF o = Equal THEN next ELSE o

\* Ord of i32, and of bool and of a derived enum through their ranks
CmpRank(x, y) == IF x < y THEN Less ELSE IF x > y THEN Greater ELSE Equal
BoolRank(x) == IF x THEN 1 ELSE 0
\* Ord of String and &str: byte-wise
CmpString(x, y) == IF x = y THEN Equal ELSE IF StrLess(x, y) THEN Less ELSE Greater
\* Ord of Option<T>: None before every Some
CmpOptionString(x, y) ==
    IF x = None THEN (IF y = None THEN Equal ELSE Less)
    ELSE IF y = None THEN Greater ELSE CmpString(Unwrap(x), Unwrap(y))
CmpOptionRank(x, y) ==
    IF x = None THEN (IF y = None THEN Equal ELSE Less)
    ELSE IF y = None THEN Greater ELSE CmpRank(Unwrap(x), Unwrap(y))
\* Ord of Option<std::cmp::Reverse<T>>
CmpOptionReverseRank(x, y) ==
    IF x = None THEN (IF y = None THEN Equal ELSE Less)
    ELSE IF y = None THEN Greater ELSE CmpRank(Unwrap(y), Unwrap(x))

\* the variants of the two tag enums, least first; a derived Ord compares the
\* positions
ApprovalStatus == <<"Verified", "Approved", "Sandbox">>
RequiredStatus == <<"RequiredByAll", "Optional">>
VariantRank(variants, v) == CHOOSE i \in 1..Len(variants) : variants[i] = v

\* str::to_lowercase over the characters used
LowerChar(c) == IF c = "A" THEN "a" ELSE IF c = "B" THEN "b" ELSE c
to_lowercase(s) == [i \in 1..Len(s) |-> LowerChar(s[i])]

\* Option::map and Option::and_then(..).map(..) on the metadata
InfoName(info) == IF info = None THEN None ELSE Some(to_lowercase(Unwrap(info).name))
InfoProvider(info) == IF info = None THEN None ELSE Some(Unwrap(info).provider)
InfoTags(info) == IF info = None THEN None ELSE Unwrap(info).modio_tags
InfoApproval(info) ==
    IF InfoTags(info) = None THEN None
    ELSE Some(VariantRank(ApprovalStatus, Unwrap(InfoTags(info)).approval_status))
InfoRequired(info) ==
    IF InfoTags(info) = None THEN None
    ELSE Some(VariantRank(RequiredStatus, Unwrap(InfoTags(info)).required_status))

\* sort_mods: name_order
name_order(mc_a, info_a, mc_b, info_b) ==
    OrderingThen(CmpOptionString(InfoName(info_a), InfoName(info_b)),
                 CmpString(mc_a.spec, mc_b.spec))

\* sort_mods: the order of the sort category, before direction and tie-break
category_order(sort_category, mc_a, info_a, mc_b, info_b) ==
    CASE sort_category = "Enabled" -> CmpRank(BoolRank(mc_b.enabled), BoolRank(mc_a.enabled))
      [] sort_category = "Name" -> name_order(mc_a, info_a, mc_b, info_b)
      [] sort_category = "Priority" -> CmpRank(mc_a.priority, mc_b.priority)
      [] sort_category = "Provider" ->
            CmpOptionString(InfoProvider(info_a), InfoProvider(info_b))
      [] sort_category = "RequiredStatus" ->
            CmpOptionReverseRank(InfoRequired(info_a), InfoRequired(info_b))
      [] sort_category = "ApprovalCategory" ->
            CmpOptionRank(InfoApproval(info_a), InfoApproval(info_b))

\* variant without the tie-break
sort_mods_no_tie_break(config, a, b) ==
    IF IsGroup(a.item) \/ IsGroup(b.item)
    THEN [ok |-> FALSE, err |-> "unimplemented"]
    ELSE LET order == category_order(config.sort_category, a.item.mc, a.info,
                                     b.item.mc, b.info)
         IN  Ok(IF config.is_ascending THEN OrderingReverse(order) ELSE order)

\* variant that applies the direction after the tie-break
sort_mods_reverse_last(config, a, b) ==
    IF IsGroup(a.item) \/ IsGroup(b.item)
    THEN [ok |-> FALSE, err |-> "unimplemented"]
    ELSE LET order == category_order(config.sort_category, a.item.mc, a.info,
                                     b.item.mc, b.info)
             tied == IF config.sort_category # "Name"
                     THEN OrderingThen(order, name_order(a.item.mc, a.info,
                                                         b.item.mc, b.info))
                     ELSE order
         IN  Ok(IF config.is_ascending THEN OrderingReverse(tied) ELSE tied)

\* the closure sort_mods(config) applied to the entries a and b
sort_mods(config, a, b) ==
    IF IsGroup(a.item) \/ IsGroup(b.item)
    THEN [ok |-> FALSE, err |-> "unimplemented"]
    ELSE LET order == category_order(config.sort_category, a.item.mc, a.info,
                                     b.item.mc, b.info)
             directed == IF config.is_ascending THEN OrderingReverse(order) ELSE order
         IN  Ok(IF config.sort_category # "Name"
                THEN OrderingThen(directed, name_order(a.item.mc, a.info,
                                                       b.item.mc, b.info))
                ELSE directed)

---------------------------------------------------------------------------
(* Specification SpecSort: the comparator applied once to every pair of    *)
(* bounded entries under every sorting configuration.                      *)

SortCategories ==
    {"Enabled", "Name", "Priority", "Provider", "RequiredStatus", "ApprovalCategory"}
SortingConfigs ==
    {[sort_category |-> c, is_ascending |-> d] : c \in SortCategories, d \in BOOLEAN}


SortNames == {<<"A">>, <<"a">>, <<"B">>}
\* where the metadata comes from: the provider and the tags it supplies
SortSources ==
    {[provider |-> <<"m", "o", "d", "i", "o">>,
      modio_tags |-> Some([approval_status |-> "Verified", required_status |-> "Optional"])],
     [provider |-> <<"m", "o", "d", "i", "o">>,
      modio_tags |-> Some([approval_status |-> "Sandbox", required_status |-> "RequiredByAll"])],
     [provider |-> <<"h", "t", "t", "p">>, modio_tags |-> None]}
SortInfos ==
    {None} \cup {Some([name |-> n, provider |-> src.provider, modio_tags |-> src.modio_tags]) :
                    n \in SortNames, src \in SortSources}
SortModConfigs ==
    {ModConfig(U_A, FALSE, TRUE, 5), ModConfig(U_A, FALSE, FALSE, 0),
     ModConfig(U_B, FALSE, TRUE, 0), ModConfig(U_B, FALSE, FALSE, 5)}
IndividualEntries ==
    {[item |-> Individual(mc), info |-> i] : mc \in SortModConfigs, i \in SortInfos}
SortEntries == IndividualEntries \cup {[item |-> Group(G_A, TRUE), info |-> None]}

\* the process after State::init on an empty config directory
InitSort ==
    /\ mod_data = Some(VersionAnnotatedModData_default)
    /\ disk = SaveModData(NoDisk, VersionAnnotatedModData_default)
    /\ pc = "running"
    /\ fault = None
    /\ buf = None
    /\ GuiIdle
    /\ Quiet
    /\ sorting_config = None
    /\ mig_in = None
    /\ mig_cur = None

\* the bound of SpecSort: one comparison in a behaviour
Uncompared == last_op = None

\* ui_profile: comp(a, b), called by sorted_by
SortMods ==
    /\ Running
    /\ Uncompared
    /\ \E config \in SortingConfigs, a \in SortEntries, b \in SortEntries :
          \E r \in {sort_mods(config, a, b)} :
              IF r.ok
              THEN /\ last_op' = [fn |-> "sort_mods", config |-> config, a |-> a, b |-> b,
                                  ret |-> r.v]
                   /\ UNCHANGED <<pc, fault>>
              ELSE /\ last_op' = [fn |-> "sort_mods", config |-> config, a |-> a, b |-> b]
                   /\ pc' = "panicked"
                   /\ fault' = Some(r.err)
    /\ QueryFrame

NextSort == SortMods

SpecSort == InitSort /\ [][NextSort]_vars

---------------------------------------------------------------------------
(* "Install mods" (App::update): the enabled mods with their effective     *)
(* priority, sorted by the negated priority, handed to integration.        *)

\* i32::MIN and i32::MAX
I32_MIN == -2147483647 - 1
I32_MAX == -(I32_MIN + 1)

\* "-priority" on an i32.  The negation of i32::MIN overflows: a build with
\* overflow checks panics, a build without them wraps to i32::MIN.
I32Neg(x, overflow_checks) ==
    IF x # I32_MIN THEN Ok(-x)
    ELSE IF overflow_checks THEN [ok |-> FALSE, err |-> "attempt to negate with overflow"]
    ELSE Ok(I32_MIN)

\* slice::sort_by_key is a stable sort, ascending in the key: x goes behind the
\* elements whose key is not greater
RECURSIVE InsertSorted(_, _)
InsertSorted(s, x) ==
    IF s = <<>> THEN <<x>>
    ELSE IF s[Len(s)].key <= x.key THEN Append(s, x)
    ELSE Append(InsertSorted(SubSeq(s, 1, Len(s) - 1), x), s[Len(s)])

RECURSIVE SortByKey(_)
SortByKey(s) ==
    IF s = <<>> THEN <<>>
    ELSE InsertSorted(SortByKey(SubSeq(s, 1, Len(s) - 1)), s[Len(s)])

\* the "Install mods" button: mods_with_priority.sort_by_key(|(_, p)| -p), then
\* the spec of each.  The key closure runs only when there is something to
\* compare (two elements or more).
install_mods(md, overflow_checks) ==
    LET r == get_enabled_mods_with_priority(md, md.active_profile)
    IN  IF ~r.ok THEN r
        ELSE LET mods_with_priority == r.v
                 n == Len(mods_with_priority)
                 neg == [i \in 1..n |-> I32Neg(mods_with_priority[i][2], overflow_checks)]
             IN  IF n < 2
                 THEN Ok([i \in 1..n |-> mods_with_priority[i][1].spec])
                 ELSE IF \E i \in 1..n : ~neg[i].ok
                 THEN [ok |-> FALSE, err |-> "attempt to negate with overflow"]
                 ELSE LET keyed == [i \in 1..n |->
                                       [item |-> mods_with_priority[i], key |-> neg[i].v]]
                          sorted == SortByKey(keyed)
                      IN  Ok([i \in 1..n |-> sorted[i].item[1].spec])

---------------------------------------------------------------------------
(* Specification SpecInstall: "Install mods" pressed on every bounded      *)
(* store whose priorities range over i32, its extremes included.           *)

InstallConfigs ==
    {ModConfig(U_A, FALSE, TRUE, I32_MIN), ModConfig(U_B, FALSE, TRUE, 0),
     ModConfig(U_A, FALSE, TRUE, 5), ModConfig(U_B, FALSE, TRUE, 5),
     ModConfig(U_B, FALSE, TRUE, I32_MAX)}
InstallMembers == {ModConfig(U_A, FALSE, TRUE, 5), ModConfig(U_B, FALSE, TRUE, 0)}
InstallGroups ==
    {ModGroup(m, o) : m \in BoundedSeq(InstallMembers, MaxLen), o \in {None, Some(I32_MIN)}}
InstallProfiles ==
    {ModProfile_v0_2_0(m, (G_A :> g)) :
        m \in BoundedSeq({Individual(mc) : mc \in InstallConfigs} \cup {Group(G_A, TRUE)},
                         MaxRows),
        g \in InstallGroups}

InitInstall ==
    /\ \E p \in InstallProfiles :
          LET v == V0_2_0(ModData_v0_2_0(S_default, (S_default :> p)))
          IN  mod_data = Some(v) /\ disk = SaveModData(NoDisk, v)
    /\ pc = "running"
    /\ fault = None
    /\ buf = None
    /\ GuiIdle
    /\ Quiet
    /\ sorting_config = None
    /\ mig_in = None
    /\ mig_cur = None

\* App::update: the "Install mods" button is clicked
InstallMods ==
    /\ Running
    /\ last_op = None
    /\ \E overflow_checks \in BOOLEAN :
          \E r \in {install_mods(Store, overflow_checks)} :
              IF r.ok
              THEN /\ last_op' = [fn |-> "install_mods", ret |-> r.v]
                   /\ UNCHANGED <<pc, fault>>
              ELSE /\ last_op' = [fn |-> "install_mods"]
                   /\ pc' = "panicked"
                   /\ fault' = Some(r.err)
    /\ QueryFrame

NextInstall == InstallMods

SpecInstall == InitInstall /\ [][NextInstall]_vars

---------------------------------------------------------------------------
(* The mod list of the central panel: the "Sort by" radio buttons          *)
(* (App::update) and the rows drawn by ui_profile, sorted or manual.       *)

\* a click on "Manual" (choice None) or on the radio button of a category, then
\* update_sorting_config: a click on the selected category flips the direction,
\* a click on another one selects it ascending
radio_clicked(config, choice) ==
    IF choice = None THEN None
    ELSE IF config # None /\ Unwrap(config).sort_category = Unwrap(choice)
    THEN Some([sort_category |-> Unwrap(choice),
               is_ascending |-> ~Unwrap(config).is_ascending])
    ELSE Some([sort_category |-> Unwrap(choice), is_ascending |-> TRUE])

\* ModStore::get_mod_info for the two locators: nothing cached, or metadata
\* whose names order the mods against their locators
CachedInfo(name, url) ==
    Some([name |-> name, provider |-> <<"h", "t", "t", "p">>, modio_tags |-> None,
          spec |-> url, versions |-> <<U_A, U_B>>])
ModInfoCaches ==
    {(U_A :> None) @@ (U_B :> None),
     (U_A :> CachedInfo(<<"B">>, U_A)) @@ (U_B :> CachedInfo(<<"a">>, U_B))}

\* Itertools::sorted_by is a stable sort: x goes behind the elements that do not
\* compare Greater
RECURSIVE InsertBy(_, _, _)
InsertBy(config, s, x) ==
    IF s = <<>> THEN <<x>>
    ELSE IF sort_mods(config, s[Len(s)], x).v # Greater THEN Append(s, x)
    ELSE Append(InsertBy(config, SubSeq(s, 1, Len(s) - 1), x), s[Len(s)])

RECURSIVE SortedBy(_, _)
SortedBy(config, s) ==
    IF s = <<>> THEN <<>>
    ELSE InsertBy(config, SortedBy(config, SubSeq(s, 1, Len(s) - 1)), s[Len(s)])

\* variant that sorts the profile's own vector
ui_profile_sorted_in_place(profile, config, cache) ==
    IF \E i \in 1..Len(profile.mods) : IsGroup(profile.mods[i])
    THEN [ok |-> FALSE, err |-> "unimplemented"]
    ELSE LET rows == [i \in 1..Len(profile.mods) |->
                         [item |-> profile.mods[i],
                          info |-> cache[profile.mods[i].mc.spec],
                          store_index |-> i - 1]]
             sorted == SortedBy(config, rows)
         IN  Ok([rows |-> [i \in 1..Len(sorted) |-> i - 1],
                 profile |-> [profile EXCEPT
                                 !.mods = [i \in 1..Len(sorted) |-> sorted[i].item]]])

\* ui_profile, sorted view: every entry is paired with its metadata (a Group
\* entry is unimplemented!()), the pairs are enumerated and sorted with the
\* comparator, and the rows are drawn in that order under their store index.
\* Yields the store indices in display order and the profile afterwards.
ui_profile_sorted(profile, config, cache) ==
    IF \E i \in 1..Len(profile.mods) : IsGroup(profile.mods[i])
    THEN [ok |-> FALSE, err |-> "unimplemented"]
    ELSE LET rows == [i \in 1..Len(profile.mods) |->
                         [item |-> profile.mods[i],
                          info |-> cache[profile.mods[i].mc.spec],
                          store_index |-> i - 1]]
             sorted == SortedBy(config, rows)
         IN  Ok([rows |-> [i \in 1..Len(sorted) |-> sorted[i].store_index],
                 profile |-> profile])

\* Vec::insert(i, x) with a 0-based index
VecInsert(s, i, x) ==
    [j \in 1..(Len(s) + 1) |-> IF j <= i THEN s[j] ELSE IF j = i + 1 THEN x ELSE s[j - 1]]

\* ui_profile, manual view: res.update_vec(&mut profile.mods) after a drag that
\* took the row at from and dropped it at to
update_vec(mods, from, to) == VecInsert(VecRemove(mods, from), to, mods[from + 1])

\* the rows ui_mod is drawn for: the root mods (in_folder None) and the members
\* of the folders that are drawn
ModPlaces(profile) ==
    {[in_folder |-> None, row_index |-> i - 1] :
        i \in {j \in 1..Len(profile.mods) : ~IsGroup(profile.mods[j])}}
    \cup UNION {{[in_folder |-> Some(g), row_index |-> k - 1] :
                    k \in 1..Len(profile.groups[g].mods)} :
                g \in RenderedFolders(profile)}
ModAt(profile, place) ==
    IF place.in_folder = None
    THEN profile.mods[place.row_index + 1].mc
    ELSE profile.groups[Unwrap(place.in_folder)].mods[place.row_index + 1]
WithModAt(profile, place, mc) ==
    IF place.in_folder = None
    THEN [profile EXCEPT !.mods[place.row_index + 1].mc = mc]
    ELSE [profile EXCEPT !.groups[Unwrap(place.in_folder)].mods[place.row_index + 1] = mc]
\* the override_priority ui_mod is called with
OverrideAt(profile, place) ==
    IF place.in_folder = None THEN None
    ELSE profile.groups[Unwrap(place.in_folder)].priority_override

\* ui_mod: toggle_switch(&mut mc.enabled) has changed
toggle_mod(mc) == [mc EXCEPT !.enabled = ~@]
\* ui_mod: the priority DragValue has changed
drag_priority(mc, value) == [mc EXCEPT !.priority = value]
\* ui_mod: selectable_value(&mut mc.spec.url, ..) of the version ComboBox
select_version(mc, url) == [mc EXCEPT !.spec = url]

\* the sorted view cannot draw this profile: the frame panics before any row
SortedViewPanics(profile) ==
    sorting_config # None /\ \E i \in 1..Len(profile.mods) : IsGroup(profile.mods[i])

\* the end of ui_profile: "if ctx.needs_save { self.state.mod_data.save().unwrap() }"
EndUiProfile(profile, needs_save) ==
    IF needs_save
    THEN MutateActive(profile)
    ELSE /\ mod_data' = Some([Unwrap(mod_data) EXCEPT
                !.md.profiles[Store.active_profile] = profile])
         /\ UNCHANGED disk

\* App::update: a "Sort by" radio button is clicked
UpdateSortingConfig ==
    /\ Running
    /\ last_op = None
    /\ \E choice \in {None} \cup {Some(c) : c \in SortCategories} :
          sorting_config' = radio_clicked(sorting_config, choice)
    /\ StoreUnchanged
    /\ UNCHANGED <<pc, fault, buf, pending_deletion, create_folder_popup,
                   rename_folder_popup, mig_in, mig_cur, maybe_versioned, tmp_file, last_op>>

\* ui_profile with a sorting configuration and no click in it
UiProfileSorted ==
    /\ Running
    /\ HasActive(Store)
    /\ sorting_config # None
    /\ last_op = None
    /\ \E cache \in ModInfoCaches :
          \E r \in {ui_profile_sorted(ActiveProfile(Store), Unwrap(sorting_config), cache)} :
              IF r.ok
              THEN /\ last_op' = [fn |-> "ui_profile", rows |-> r.v.rows]
                   /\ EndUiProfile(r.v.profile, FALSE)
                   /\ UNCHANGED <<pc, fault>>
              ELSE /\ last_op' = [fn |-> "ui_profile"]
                   /\ pc' = "panicked"
                   /\ fault' = Some(r.err)
                   /\ StoreUnchanged
    /\ UNCHANGED <<buf, pending_deletion, create_folder_popup, rename_folder_popup,
                   mig_in, mig_cur, maybe_versioned, tmp_file, sorting_config>>

\* ui_profile, manual view: a row is dragged to another position
DragReorder ==
    /\ Running
    /\ HasActive(Store)
    /\ sorting_config = None
    /\ last_op = None
    /\ \E from \in 0..(Len(ActiveProfile(Store).mods) - 1),
          to \in 0..(Len(ActiveProfile(Store).mods) - 1) :
          /\ from # to
          /\ EndUiProfile([ActiveProfile(Store) EXCEPT !.mods = update_vec(@, from, to)],
                          TRUE)
          /\ last_op' = [fn |-> "update_vec", from |-> from, to |-> to]
    /\ ControlFrame

\* ui_mod: the enabled switch of a mod
ToggleMod ==
    /\ Running
    /\ HasActive(Store)
    /\ ~SortedViewPanics(ActiveProfile(Store))
    /\ last_op = None
    /\ \E place \in ModPlaces(ActiveProfile(Store)) :
          /\ EndUiProfile(WithModAt(ActiveProfile(Store), place,
                              toggle_mod(ModAt(ActiveProfile(Store), place))), TRUE)
          /\ last_op' = [fn |-> "toggle_mod", place |-> place]
    /\ ControlFrame

\* ui_mod: the priority of a mod whose metadata is cached and whose folder does
\* not override it
DragPriority ==
    /\ Running
    /\ HasActive(Store)
    /\ ~SortedViewPanics(ActiveProfile(Store))
    /\ last_op = None
    /\ \E place \in ModPlaces(ActiveProfile(Store)), cache \in ModInfoCaches,
          value \in {-999, 7} :
          /\ cache[ModAt(ActiveProfile(Store), place).spec] # None
          /\ OverrideAt(ActiveProfile(Store), place) = None
          /\ value # ModAt(ActiveProfile(Store), place).priority
          /\ EndUiProfile(WithModAt(ActiveProfile(Store), place,
                              drag_priority(ModAt(ActiveProfile(Store), place), value)),
                          TRUE)
          /\ last_op' = [fn |-> "drag_priority", place |-> place]
    /\ ControlFrame

\* ui_mod: another version is selected in the ComboBox of a mod whose metadata
\* is cached
SelectVersion ==
    /\ Running
    /\ HasActive(Store)
    /\ ~SortedViewPanics(ActiveProfile(Store))
    /\ last_op = None
    /\ \E place \in ModPlaces(ActiveProfile(Store)), cache \in ModInfoCaches :
          LET mc == ModAt(ActiveProfile(Store), place)
          IN  /\ cache[mc.spec] # None
              /\ \E url \in {Unwrap(cache[mc.spec]).spec}
                            \cup {Unwrap(cache[mc.spec]).versions[k] :
                                     k \in 1..Len(Unwrap(cache[mc.spec]).versions)} :
                    /\ url # mc.spec
                    /\ EndUiProfile(WithModAt(ActiveProfile(Store), place,
                                        select_version(mc, url)), FALSE)
              /\ last_op' = [fn |-> "select_version", place |-> place]
    /\ ControlFrame

---------------------------------------------------------------------------
(* Specification SpecFrame: the sort selection, folder creation and the    *)
(* rows of ui_profile, on every bounded store with one profile and every   *)
(* saved sorting configuration.  One rendering or row edit in a behaviour. *)

FrameStores ==
    {ModData_v0_2_0(S_default, (S_default :> ModProfile_v0_2_0(m, g))) :
        m \in BoundedSeq(Entries, MaxLen), g \in GroupMaps}

InitFrame ==
    /\ \E md \in FrameStores :
          /\ mod_data = Some(V0_2_0(md))
          /\ disk = SaveModData(NoDisk, V0_2_0(md))
    /\ sorting_config \in {None} \cup {Some(c) : c \in SortingConfigs}
    /\ pc = "running"
    /\ fault = None
    /\ buf = None
    /\ GuiIdle
    /\ Quiet
    /\ mig_in = None
    /\ mig_cur = None

NextFrame ==
    \/ UpdateSortingConfig
    \/ last_op = None /\ OpenCreateFolderPopup
    \/ last_op = None /\ ShowCreateFolderPopup
    \/ UiProfileSorted
    \/ DragReorder
    \/ ToggleMod
    \/ DragPriority
    \/ SelectVersion

SpecFrame == InitFrame /\ [][NextFrame]_vars

---------------------------------------------------------------------------
(* Specification SpecShare: State::init on a generation-1 mod_data.json    *)
(* whose two profiles reference the same global group, then the GUI on the *)
(* migrated store.                                                         *)

\* mod_data.json of generation 1: both profiles hold a reference to group "a"
Disk_shared(active_profile) ==
    [mod_data_json |-> Some(SerVersionAnnotatedModData(V0_1_0(ModData_v0_1_0(
        active_profile,
        (S_default :> ModProfile_v0_1_0(<<Group(G_A, TRUE), Individual(Mod_B)>>)
         @@ P_P :> ModProfile_v0_1_0(<<Individual(Mod_A), Group(G_A, FALSE)>>)),
        (G_A :> ModGroup(<<Mod_A>>, Some(5))))))),
     profiles_json |-> None]

InitShare ==
    /\ disk \in {Disk_shared(S_default), Disk_shared(P_P)}
    /\ pc = "start"
    /\ fault = None
    /\ buf = None
    /\ mod_data = None
    /\ GuiIdle
    /\ Quiet
    /\ sorting_config = None
    /\ mig_in = None
    /\ mig_cur = None

\* the bound of SpecShare: the row edit or folder control is made with no popup
\* or confirmation open, and ends the behaviour
NextShare ==
    \/ ReadModData
    \/ MigrateModData
    \/ InitSave
    \/ FirstFrame
    \/ Unmoved /\ OpenCreateFolderPopup
    \/ Unmoved /\ ShowCreateFolderPopup
    \/ Unmoved /\ RequestRenameFolder
    \/ Unmoved /\ ShowRenameFolderPopup
    \/ Unmoved /\ RequestDeleteRow
    \/ Unmoved /\ RequestDeleteFolderMod
    \/ Unmoved /\ RequestDeleteProfile
    \/ Unmoved /\ ShowDeleteConfirmation
    \/ Unmoved /\ MoveModToFolder
    \/ Unmoved /\ MoveModFromFolder
    \/ Unmoved /\ MoveModBetweenFolders
    \/ GuiIdle /\ Unmoved /\ ToggleFolder
    \/ GuiIdle /\ Unmoved /\ PriorityOverrideCheckbox
    \/ GuiIdle /\ Unmoved /\ PriorityOverrideDrag
    \/ GuiIdle /\ DragReorder
    \/ GuiIdle /\ ToggleMod
    \/ GuiIdle /\ DragPriority
    \/ GuiIdle /\ SelectVersion

SpecShare == InitShare /\ [][NextShare]_vars

---------------------------------------------------------------------------
(* Properties of the migration chain (checked under SpecMig)               *)

MigratedFrom(gen) ==
    /\ mig_in.type = "ModData" /\ mig_in.gen = gen
    /\ mig_cur.type = "ModData" /\ mig_cur.gen = 2

\* the group names a mods sequence references
ReferencedGroups(mods) == {mods[i].group_name : i \in {j \in 1..Len(mods) : IsGroup(mods[j])}}

\* C5: a gen0 store migrated to the current generation keeps its profile names
\* and active_profile; every profile has an empty groups map and its mods are
\* the original mods, each wrapped as Individual, in the original order.
C5_Gen0ToCurrent ==
    MigratedFrom(0) =>
        LET s == mig_in.v
            r == mig_cur.v
        IN  /\ DOMAIN r.profiles = DOMAIN s.profiles
            /\ r.active_profile = s.active_profile
            /\ \A n \in DOMAIN s.profiles :
                    /\ r.profiles[n].groups = EmptyMap
                    /\ Len(r.profiles[n].mods) = Len(s.profiles[n].mods)
                    /\ \A i \in 1..Len(s.profiles[n].mods) :
                            /\ r.profiles[n].mods[i].kind = "Individual"
                            /\ r.profiles[n].mods[i].mc = s.profiles[n].mods[i]

C5_Witness ==
    /\ MigratedFrom(0)
    /\ DOMAIN mig_in.v.profiles = ProfileNames
    /\ mig_in.v.profiles[S_default].mods = <<Mod_A, Mod_B>>
    /\ mig_in.v.profiles[P_P].mods = <<Mod_B>>

\* C6: the 0.1.0 -> 0.2.0 migration gives each profile exactly the groups that
\* its own mods reference and that the legacy global map defines, with the
\* legacy definition as value; mods, profile names and active_profile are kept.
C6_Gen1ToGen2 ==
    MigratedFrom(1) =>
        LET s == mig_in.v
            r == mig_cur.v
        IN  /\ DOMAIN r.profiles = DOMAIN s.profiles
            /\ r.active_profile = s.active_profile
            /\ \A n \in DOMAIN s.profiles :
                    /\ r.profiles[n].mods = s.profiles[n].mods
                    /\ DOMAIN r.profiles[n].groups =
                           ReferencedGroups(s.profiles[n].mods) \cap DOMAIN s.groups
                    /\ \A g \in DOMAIN r.profiles[n].groups :
                            r.profiles[n].groups[g] = s.groups[g]

\* a group shared by two profiles is copied into both, an unreferenced one is dropped
C6_Witness ==
    /\ MigratedFrom(1)
    /\ DOMAIN mig_in.v.groups = {G_A, G_B}
    /\ DOMAIN mig_in.v.profiles = ProfileNames
    /\ \A n \in ProfileNames : ReferencedGroups(mig_in.v.profiles[n].mods) = {G_A}
    /\ \A n \in ProfileNames : DOMAIN mig_cur.v.profiles[n].groups = {G_A}

\* C8: every transform of the chain (ModData 0.0.0 -> 0.1.0, ModData 0.1.0 ->
\* 0.2.0, ModProfile 0.0.0 -> 0.1.0, ModProfile 0.1.0 -> 0.2.0) returns a value
\* of the next generation for every input and never panics.
C8_TransformsTotal ==
    /\ mig_cur # Panic
    /\ mig_cur.type = mig_in.type
    /\ mig_cur.gen \in mig_in.gen..2

---------------------------------------------------------------------------
(* Properties of loading (checked under SpecLoad)                          *)

\* read_mod_data_or_default has returned and its result has not been saved yet
Returned == pc \in {"loaded", "failed"}
ReadObject == buf # None /\ Unwrap(buf) # Garbage /\ Unwrap(buf) # Unreadable
ReadTag(tag) == ReadObject /\ Has(Unwrap(buf), {"version"}) /\ Unwrap(buf).version = tag
ReadUntagged == ReadObject /\ ~Has(Unwrap(buf), {"version"})
LoadedAs(md) == pc = "loaded" /\ mod_data = Some(V0_2_0(md))

\* C4: a document whose version tag is none of 0.0.0, 0.1.0, 0.2.0 is rejected
\* with an error, whatever its body.
C4_UnknownTagRejected ==
    (Returned /\ ReadObject /\ Has(Unwrap(buf), {"version"})
        /\ Unwrap(buf).version \notin KnownTags)
    => pc = "failed"

\* C7: loading is idempotent on current-generation data: once the loaded
\* (migrated) store has been written back, reading the file again yields
\* exactly the in-memory value.
C7_ReloadIdentical ==
    pc = "saved" =>
        \A remove_ok \in BOOLEAN :
            read_mod_data_or_default(disk, remove_ok).res = Ok(Unwrap(mod_data))

\* a gen0 document with a mod of non-default priority, migrated and written back
C7_Witness ==
    /\ pc = "saved"
    /\ ReadTag("0.0.0")
    /\ P_P \in DOMAIN Unwrap(mod_data).md.profiles
    /\ Unwrap(mod_data).md.profiles[P_P].mods = <<Individual(Mod_A), Individual(Mod_B)>>

\* C10: a document tagged g is read as generation g and nothing else (migrated
\* from g, or rejected when its body is no generation-g body); an untagged
\* document is read as generation 0.
C10_VersionDetection ==
    Returned =>
        /\ (ReadTag("0.0.0") \/ ReadUntagged) =>
              IF DeModData_v0_0_0(Unwrap(buf)) = ParseError
              THEN pc = "failed"
              ELSE \/ fault = Some("IoError")
                   \/ \E md \in DeModData_v0_0_0(Unwrap(buf)) :
                         LoadedAs(ModData_v0_2_0_from(ModData_v0_1_0_from(md)))
        /\ ReadTag("0.1.0") =>
              IF DeModData_v0_1_0(Unwrap(buf)) = ParseError
              THEN pc = "failed"
              ELSE \/ fault = Some("IoError")
                   \/ \E md \in DeModData_v0_1_0(Unwrap(buf)) :
                         LoadedAs(ModData_v0_2_0_from(md))
        /\ ReadTag("0.2.0") =>
              IF DeModData_v0_2_0(Unwrap(buf)) = ParseError
              THEN pc = "failed"
              ELSE \/ fault = Some("IoError")
                   \/ \E md \in DeModData_v0_2_0(Unwrap(buf)) : LoadedAs(md)

\* read_mod_data_or_default took the legacy path: mod_data.json was absent and
\* profiles.json was read (nothing has been saved yet)
LegacyPath == pc # "start" /\ buf # None /\ disk.mod_data_json = None
\* the migration of the value read has been carried out
Migrated == pc \notin {"start", "deserialized", "failed"}

\* C11: on the legacy path the legacy file is gone only once the migration has
\* succeeded; if its content does not deserialize, the file is left in place
\* and initialization fails with LegacyProfilesDeserializationFailed.
C11_LegacyDeletedAfterMigration ==
    LegacyPath =>
        /\ disk.profiles_json = None => Migrated
        /\ (Unwrap(buf) # Unreadable /\ DeMaybeVersionedModData(Unwrap(buf)) = ParseError)
              => /\ pc = "failed"
                 /\ fault = Some("LegacyProfilesDeserializationFailed")
                 /\ disk.profiles_json = buf

---------------------------------------------------------------------------
(* Properties of saving (checked under SpecSave)                           *)

\* no file a reader can open, and nothing a reader has read, is a truncated document
NoPartialFile ==
    /\ disk.mod_data_json # None => ~IsTruncated(Unwrap(disk.mod_data_json))
    /\ buf # None => ~IsTruncated(Unwrap(buf))

\* a step leaves mod_data.json as it was or makes it the whole new document
OldOrNew ==
    \/ disk'.mod_data_json = disk.mod_data_json
    \/ /\ pc = "saving"
       /\ disk' = SaveModData(disk, Unwrap(mod_data))

\* C12: at every point of a save at which the process can die, mod_data.json
\* holds the whole previous document or the whole new one, never a truncated
\* one, and a reader never gets a truncated document.
C12_AtomicSave == [][OldOrNew]_vars /\ []NoPartialFile

\* a crash in the middle of the writes of a save that changes the file
C12_Witness ==
    /\ pc = "crashed"
    /\ tmp_file # None
    /\ Unwrap(tmp_file).written \in 1..(MaxChunks - 1)
    /\ disk.mod_data_json # None
    /\ disk.mod_data_json # Some(Unwrap(tmp_file).doc)

---------------------------------------------------------------------------
(* Properties of the queries (checked under SpecView)                      *)

\* last_op records a query fn that has returned
Asked(fn) == last_op # None /\ last_op.fn = fn /\ "ret" \in DOMAIN last_op
\* the profile that query was asked about
Queried == Store.profiles[last_op.profile]

\* Len(part[1]) + .. + Len(part[n])
RECURSIVE SumLen(_, _)
SumLen(part, n) == IF n = 0 THEN 0 ELSE SumLen(part, n - 1) + Len(part[n])

\* s starts with as much of part[1] \o .. \o part[n] as its length allows
StartsConcat(s, part) ==
    /\ Len(s) <= SumLen(part, Len(part))
    /\ \A i \in 1..Len(part) : \A k \in 1..Len(part[i]) :
          SumLen(part, i - 1) + k <= Len(s) => s[SumLen(part, i - 1) + k] = part[i][k]

\* s is part[1] \o .. \o part[n]
IsConcat(s, part) == StartsConcat(s, part) /\ Len(s) = SumLen(part, Len(part))

GroupRows(profile) ==
    {i \in 1..Len(profile.mods) :
        IsGroup(profile.mods[i]) /\ profile.mods[i].group_name \in DOMAIN profile.groups}
RootRows(profile) == {i \in 1..Len(profile.mods) : ~IsGroup(profile.mods[i])}
GroupAt(profile, i) == profile.groups[profile.mods[i].group_name]
\* the members of referenced groups, each as <<row of the reference, position>>
Members(profile) ==
    UNION {{<<i, k>> : k \in 1..Len(GroupAt(profile, i).mods)} : i \in GroupRows(profile)}

\* what row i contributes to a visit of everything
AllPart(profile, i) ==
    IF i \in RootRows(profile) THEN <<profile.mods[i].mc>>
    ELSE IF i \in GroupRows(profile) THEN GroupAt(profile, i).mods
    ELSE <<>>

\* C13: for_each_mod calls f once for every root Individual and once for every
\* member of every group a Group entry references, at the position of the
\* reference and in group order, whatever the enabled flags; the number of
\* calls is the number of root individuals plus the sizes of the referenced
\* groups.
C13_ForEachMod ==
    Asked("for_each_mod") =>
        /\ IsConcat(last_op.ret, [i \in 1..Len(Queried.mods) |-> AllPart(Queried, i)])
        /\ Len(last_op.ret) =
              Cardinality(RootRows(Queried)) + Cardinality(Members(Queried))

\* a disabled root mod and a disabled folder with a disabled member are visited
C13_Witness ==
    /\ Asked("for_each_mod")
    /\ Queried.mods = <<Individual(Mod_B), Group(G_B, FALSE)>>
    /\ last_op.ret = <<Mod_B, Mod_B, Mod_A>>

\* what row i contributes under the enable rule
EnabledPart(profile, i) ==
    IF i \in RootRows(profile)
    THEN IF profile.mods[i].mc.enabled THEN <<profile.mods[i].mc>> ELSE <<>>
    ELSE IF i \in GroupRows(profile) /\ profile.mods[i].enabled
         THEN SelectSeq(GroupAt(profile, i).mods, LAMBDA mc : mc.enabled)
         ELSE <<>>

\* C14: for_each_enabled_mod calls f, in profile order, for the root
\* Individuals whose own flag is true and for the members with a true flag of
\* the groups whose Group entry has a true flag, and for nothing else.
C14_ForEachEnabledMod ==
    Asked("for_each_enabled_mod") =>
        IsConcat(last_op.ret, [i \in 1..Len(Queried.mods) |-> EnabledPart(Queried, i)])

\* one enabled member of an enabled folder is all that is visited
C14_Witness ==
    /\ Asked("for_each_enabled_mod")
    /\ Queried.mods = <<Individual(Mod_B), Group(G_B, TRUE), Group(G_A, FALSE)>>
    /\ DOMAIN Queried.groups = {G_A, G_B}
    /\ last_op.ret = <<Mod_A>>

DisabledInEnabledGroups(profile) ==
    {m \in Members(profile) :
        profile.mods[m[1]].enabled /\ ~GroupAt(profile, m[1]).mods[m[2]].enabled}
AllInDisabledGroups(profile) == {m \in Members(profile) : ~profile.mods[m[1]].enabled}
DisabledRoot(profile) == {i \in RootRows(profile) : ~profile.mods[i].mc.enabled}

\* C15: the number of visits of for_each_mod is the number of visits of
\* for_each_enabled_mod plus the disabled mods in enabled groups plus all mods
\* in disabled groups plus the disabled root mods.
C15_VisitCounts ==
    Asked("for_each_mod") =>
        Len(last_op.ret) =
            Len(for_each_enabled_mod(Store, last_op.profile).v)
            + Cardinality(DisabledInEnabledGroups(Queried))
            + Cardinality(AllInDisabledGroups(Queried))
            + Cardinality(DisabledRoot(Queried))

\* each of the four terms is positive
C15_Witness ==
    /\ Asked("for_each_mod")
    /\ for_each_enabled_mod(Store, last_op.profile).v # <<>>
    /\ DisabledInEnabledGroups(Queried) # {}
    /\ AllInDisabledGroups(Queried) # {}
    /\ DisabledRoot(Queried) # {}

\* the enabled members of the group of row i, each with its effective priority
WithPriority(mods, priority_override) ==
    [k \in 1..Len(mods) |->
        <<mods[k], IF IsSome(priority_override) THEN Unwrap(priority_override)
                   ELSE mods[k].priority>>]
PriorityPart(profile, i) ==
    IF i \in RootRows(profile)
    THEN IF profile.mods[i].mc.enabled
         THEN << <<profile.mods[i].mc, profile.mods[i].mc.priority>> >>
         ELSE <<>>
    ELSE WithPriority(EnabledPart(profile, i),
                      IF i \in GroupRows(profile)
                      THEN GroupAt(profile, i).priority_override ELSE None)

\* C16: get_enabled_mods_with_priority returns, in the same order, the entries
\* for_each_enabled_mod visits, each with its effective priority: the owning
\* group's override when it is Some, else the mod's own priority; a root mod
\* always has its own.
C16_EnabledModsWithPriority ==
    Asked("get_enabled_mods_with_priority") =>
        /\ [k \in 1..Len(last_op.ret) |-> last_op.ret[k][1]]
              = for_each_enabled_mod(Store, last_op.profile).v
        /\ IsConcat(last_op.ret,
                    [i \in 1..Len(Queried.mods) |-> PriorityPart(Queried, i)])

\* the same mod at the root with its own priority and in a folder with the override
C16_Witness ==
    /\ Asked("get_enabled_mods_with_priority")
    /\ last_op.ret = << <<Mod_A, 5>>, <<Mod_A, 7>> >>

\* what row i makes any_mod hand to f
ArgPart(profile, i) ==
    IF i \in RootRows(profile) THEN << <<profile.mods[i].mc, None>> >>
    ELSE IF i \in GroupRows(profile)
         THEN [k \in 1..Len(GroupAt(profile, i).mods) |->
                  <<GroupAt(profile, i).mods[k], Some(profile.mods[i].enabled)>>]
         ELSE <<>>

\* C18: any_mod evaluates f on the entries in profile order, a root Individual
\* as (entry, None), a group member as (entry, Some(flag of the Group entry)),
\* members of disabled groups included, a Group entry without group
\* contributing nothing; it stops at the first entry f holds of and returns
\* true, and returns false when f holds of none.
C18_AnyMod ==
    Asked("any_mod") =>
        LET calls == last_op.calls
            args == [i \in 1..Len(Queried.mods) |-> ArgPart(Queried, i)]
        IN  /\ StartsConcat(calls, args)
            /\ \A j \in 1..(Len(calls) - 1) : ~last_op.f[calls[j]]
            /\ last_op.ret => calls # <<>> /\ last_op.f[calls[Len(calls)]]
            /\ ~last_op.ret => /\ Len(calls) = SumLen(args, Len(args))
                               /\ \A j \in 1..Len(calls) : ~last_op.f[calls[j]]

\* f holds of an enabled member of a disabled folder; the row after is not evaluated
C18_Witness ==
    /\ Asked("any_mod")
    /\ Queried.mods = <<Individual(Mod_A), Group(G_B, FALSE), Individual(Mod_B)>>
    /\ last_op.ret
    /\ last_op.calls = << <<Mod_A, None>>, <<Mod_B, Some(FALSE)>>, <<Mod_A, Some(FALSE)>> >>

---------------------------------------------------------------------------
(* Properties of the folder-row controls (checked under SpecView)          *)

\* the store with its active profile replaced
WithActive(md, profile) == [md EXCEPT !.profiles[md.active_profile] = profile]

Queries ==
    {"for_each_mod", "for_each_enabled_mod", "get_enabled_mods_with_priority", "any_mod"}

\* a step of a priority override control changes that field of that folder only
OverrideStep ==
    last_op'.fn \in {"priority_override_checkbox", "priority_override_drag"} =>
        LET folder == last_op'.folder_name
            before == ActiveProfile(Store)
            after == ActiveProfile(Store)'
        IN  /\ Store' = WithActive(Store, after)
            /\ after.mods = before.mods
            /\ DOMAIN after.groups = DOMAIN before.groups
            /\ \A g \in DOMAIN before.groups : after.groups[g].mods = before.groups[g].mods
            /\ \A g \in (DOMAIN before.groups) \ {folder} : after.groups[g] = before.groups[g]
            /\ after.groups[folder].priority_override
                  # before.groups[folder].priority_override
            /\ after.groups[folder].priority_override = None =>
                  EnabledGroupMods(after.groups[folder].mods, None, <<>>)
                      = WithPriority(SelectSeq(before.groups[folder].mods,
                                               LAMBDA mc : mc.enabled), None)

\* a query writes nothing
QueryStep == last_op'.fn \in Queries => mod_data' = mod_data /\ disk' = disk

\* C17: setting, changing or clearing a group's priority_override changes that
\* field only (the members' stored priority and enabled, and every other
\* entry, stay); computing effective priorities writes nothing; after
\* clearing, each member's effective priority is its stored priority.
C17_OverrideFrame == [][OverrideStep /\ QueryStep]_vars

\* the override of folder "b" has been cleared while the folder is enabled
C17_Witness ==
    /\ last_op # None
    /\ last_op.fn = "priority_override_checkbox"
    /\ last_op.folder_name = G_B
    /\ ActiveProfile(Store).groups[G_B].priority_override = None
    /\ \E i \in GroupRows(ActiveProfile(Store)) :
          ActiveProfile(Store).mods[i] = Group(G_B, TRUE)

\* a step of the enabled switch changes the flag of that Group entry only, and a
\* second click gives back the results of the two queries
ToggleStep ==
    last_op'.fn = "toggle_folder" =>
        LET row == last_op'.row_index + 1
            before == ActiveProfile(Store)
            after == ActiveProfile(Store)'
            again == toggle_folder(after, row - 1)
        IN  /\ Store' = WithActive(Store, after)
            /\ after.groups = before.groups
            /\ Len(after.mods) = Len(before.mods)
            /\ \A j \in (1..Len(before.mods)) \ {row} : after.mods[j] = before.mods[j]
            /\ after.mods[row] = Group(before.mods[row].group_name, ~before.mods[row].enabled)
            /\ for_each_enabled_mod(WithActive(Store, again), Store.active_profile)
                  = for_each_enabled_mod(Store, Store.active_profile)
            /\ get_enabled_mods_with_priority(WithActive(Store, again), Store.active_profile)
                  = get_enabled_mods_with_priority(Store, Store.active_profile)

\* C19: toggling a folder changes the enabled field of that Group entry only,
\* no member's stored flag; toggling it off and on again restores the results
\* of for_each_enabled_mod and get_enabled_mods_with_priority, the members that
\* are individually disabled included.
C19_ToggleFolder == [][ToggleStep]_vars

\* folder "b", which has a disabled member, has been switched on
C19_Witness ==
    /\ last_op # None
    /\ last_op.fn = "toggle_folder"
    /\ ActiveProfile(Store).mods[last_op.row_index + 1] = Group(G_B, TRUE)
    /\ G_B \in DOMAIN ActiveProfile(Store).groups
    /\ for_each_enabled_mod(Store, Store.active_profile).v = <<Mod_A>>

---------------------------------------------------------------------------
(* Properties of the editor (checked under Spec)                           *)

\* every Group entry of the profile names a key of the profile's groups map
RefsValid(profile) ==
    \A i \in 1..Len(profile.mods) :
        IsGroup(profile.mods[i]) => profile.mods[i].group_name \in DOMAIN profile.groups

\* C1: reference invariant.  From a store whose Group entries all name existing
\* folders, after any sequence of create, rename and delete folder, the three
\* moves, delete mod and delete mod in folder, every Group entry of every
\* profile still names a key of that profile's groups map.
C1_ReferenceInvariant ==
    mod_data # None =>
        \A name \in DOMAIN Store.profiles : RefsValid(Store.profiles[name])

\* a folder "b", which only the editor creates, is referenced and holds a mod
C1_Witness ==
    /\ Running
    /\ HasActive(Store)
    /\ G_B \in RenderedFolders(ActiveProfile(Store))
    /\ ActiveProfile(Store).groups[G_B].mods # <<>>
    /\ G_A \notin DOMAIN ActiveProfile(Store).groups

\* C2: after every mutation that has completed, active_profile is a key of
\* profiles.
C2_ActiveProfileExists ==
    (mod_data # None /\ pc # "panicked") => HasActive(Store)

\* C3: at least one profile always exists, and deleting the only profile does
\* not panic.
C3_AtLeastOneProfile ==
    mod_data # None =>
        /\ DOMAIN Store.profiles # {}
        /\ fault # Some("remove_active_profile")

\* C9: once read_mod_data_or_default has returned a value, the in-memory value
\* is the V0_2_0 variant and stays so under every later operation; the
\* unreachable!() arms of Deref / DerefMut are never reached.
C9_AlwaysCurrentGeneration ==
    /\ mod_data # None => Unwrap(mod_data).variant = "V0_2_0"
    /\ fault # Some("unreachable")

\* a generation-1 document, loaded, then edited: a folder "b" was created
C9_Witness ==
    /\ Running
    /\ ReadTag("0.1.0")
    /\ HasActive(Store)
    /\ G_B \in DOMAIN ActiveProfile(Store).groups

\* a frame of show_create_folder_popup that closes the popup
CreateStep ==
    (create_folder_popup # None /\ create_folder_popup' = None /\ HasActive(Store)) =>
        LET before == ActiveProfile(Store)
            after == ActiveProfile(Store)'
        IN  /\ Store' = WithActive(Store, after)
            /\ \/ after = before
               \/ \E name \in (DOMAIN after.groups) \ (DOMAIN before.groups) :
                     after = ModProfile_v0_2_0(
                                 Append(before.mods, Group(name, TRUE)),
                                 MapInsert(before.groups, name, ModGroup(<<>>, None)))

\* C20: creating a folder under a key the profile's groups already has is
\* rejected and leaves the profile as it was, the existing group and its mods
\* included; otherwise it inserts an empty group without priority override
\* under that key, appends one Group{name, enabled: true} entry at the end of
\* mods and changes nothing else.
C20_CreateGroup == [][CreateStep]_vars

\* after is before with folder old_name renamed to new_name
Renamed(before, after, old_name, new_name) ==
    /\ Len(after.mods) = Len(before.mods)
    /\ \A i \in 1..Len(before.mods) :
          after.mods[i] =
              IF IsGroup(before.mods[i]) /\ before.mods[i].group_name = old_name
              THEN Group(new_name, before.mods[i].enabled)
              ELSE before.mods[i]
    /\ IF old_name \in DOMAIN before.groups
       THEN /\ DOMAIN after.groups = ((DOMAIN before.groups) \ {old_name}) \cup {new_name}
            /\ after.groups[new_name] = before.groups[old_name]
            /\ \A g \in (DOMAIN before.groups) \ {old_name, new_name} :
                  after.groups[g] = before.groups[g]
       ELSE after.groups = before.groups

\* a frame of show_rename_folder_popup that closes the popup
RenameStep ==
    (rename_folder_popup # None /\ rename_folder_popup' = None /\ HasActive(Store)) =>
        LET old_name == Unwrap(rename_folder_popup)[1]
            before == ActiveProfile(Store)
            after == ActiveProfile(Store)'
        IN  /\ Store' = WithActive(Store, after)
            /\ \/ after = before
               \/ \E new_name \in GroupNames :
                     /\ new_name = old_name \/ new_name \notin DOMAIN before.groups
                     /\ Renamed(before, after, old_name, new_name)

\* C21: renaming a folder to a key the profile's groups already has, other than
\* its own, is rejected and leaves the profile as it was; otherwise the group's
\* mods and priority_override are stored under the new key and no longer under
\* the old one, every Group entry naming the old key names the new one at the
\* same position with the same enabled flag, no other group is overwritten
\* and no other entry changes.
C21_RenameGroup == [][RenameStep]_vars

\* C22: a rename that is accepted, followed at once by the rename back to the
\* old name, restores the profile: its mods sequence and its groups map.
C22_RenameRoundTrip ==
    (Running /\ HasActive(Store)) =>
        \A old_name \in ReferencedGroups(ActiveProfile(Store).mods),
           buffer \in FolderBuffers :
            rename_name_valid(ActiveProfile(Store), old_name, buffer) =>
                rename_pressed(rename_pressed(ActiveProfile(Store), old_name, buffer),
                               Trim(buffer), old_name)
                    = ActiveProfile(Store)

---------------------------------------------------------------------------
(* Properties of the relocation and deletion handlers (checked under       *)
(* SpecEdit)                                                               *)

\* the entries of mods other than the Group entries naming folder_name
OtherEntries(mods, folder_name) ==
    SelectSeq(mods, LAMBDA item : ~(IsGroup(item) /\ item.group_name = folder_name))

\* after is before with folder folder_name deleted
Deleted(before, after, folder_name) ==
    LET members == IF folder_name \in DOMAIN before.groups
                   THEN before.groups[folder_name].mods
                   ELSE <<>>
        kept == OtherEntries(before.mods, folder_name)
    IN  /\ folder_name \notin DOMAIN after.groups
        /\ \A i \in 1..Len(after.mods) :
              ~(IsGroup(after.mods[i]) /\ after.mods[i].group_name = folder_name)
        /\ Len(after.mods) = Len(kept) + Len(members)
        /\ SubSeq(after.mods, 1, Len(kept)) = kept
        /\ \A k \in 1..Len(members) :
              after.mods[Len(kept) + k] = Individual(members[k])
        /\ DOMAIN after.groups = (DOMAIN before.groups) \ {folder_name}
        /\ \A g \in DOMAIN after.groups : after.groups[g] = before.groups[g]

\* a frame of show_delete_confirmation that answers the deletion of a folder
DeleteFolderStep ==
    (/\ pending_deletion # None /\ pending_deletion' = None
     /\ pending_deletion[1].kind = "Folder" /\ HasActive(Store)) =>
        LET before == ActiveProfile(Store)
            after == ActiveProfile(Store)'
        IN  /\ Store' = WithActive(Store, after)
            /\ after = before \/ Deleted(before, after, pending_deletion[1].folder_name)

\* the deletion of any folder name from the profile at hand
DeleteFolderAnyName ==
    (Running /\ HasActive(Store)) =>
        \A folder_name \in GroupNames :
            Deleted(ActiveProfile(Store),
                    delete_folder(ActiveProfile(Store), folder_name), folder_name)

\* C23: after the deletion of a folder, whatever the shape of the profile, the
\* name is no key of groups and no Group entry of mods names it; the mods of
\* the folder are Individual entries at the end of the root list, in the
\* folder's order and with their fields unchanged; all other entries keep
\* their relative order.
C23_DeleteGroup == [][DeleteFolderStep]_vars /\ []DeleteFolderAnyName

\* folder "b", referenced by a row, has been deleted from a full root list: its
\* two mods follow the rows that stayed
C23_Witness ==
    /\ Running /\ last_op = None /\ pending_deletion = None
    /\ G_B \notin DOMAIN ActiveProfile(Store).groups
    /\ Len(ActiveProfile(Store).mods) = MaxRows + 1
    /\ SubSeq(ActiveProfile(Store).mods, MaxRows, MaxRows + 1)
          = <<Individual(Mod_B), Individual(Mod_A)>>
    /\ \E i \in 1..MaxRows : ActiveProfile(Store).mods[i] = Group(G_A, TRUE)

\* the step is the one relocation of the behaviour, through handler fn
Moved(fn) == last_op = None /\ last_op' # None /\ last_op'.fn = fn

\* what the claim calls a valid move
ValidMoveTo(profile, mod_index, folder_name) ==
    /\ folder_name \in DOMAIN profile.groups
    /\ mod_index < Len(profile.mods)
    /\ ~IsGroup(profile.mods[mod_index + 1])
ValidMoveFrom(profile, folder_name, mod_index) ==
    /\ folder_name \in DOMAIN profile.groups
    /\ mod_index < Len(profile.groups[folder_name].mods)
ValidMoveBetween(profile, from_folder, mod_index, to_folder) ==
    /\ from_folder \in DOMAIN profile.groups
    /\ to_folder \in DOMAIN profile.groups
    /\ mod_index < Len(profile.groups[from_folder].mods)

\* t is s without its element at the 0-based index i, the rest in order
TakenOut(s, t, i) ==
    /\ Len(t) = Len(s) - 1
    /\ \A j \in 1..Len(t) : t[j] = IF j <= i THEN s[j] ELSE s[j + 1]
\* t is s with x at its end
PutLast(s, t, x) == Len(t) = Len(s) + 1 /\ SubSeq(t, 1, Len(s)) = s /\ t[Len(t)] = x

\* the groups of after are those of before but for the mods of the folders in
\* touched
GroupsKept(before, after, touched) ==
    /\ DOMAIN after.groups = DOMAIN before.groups
    /\ \A g \in DOMAIN before.groups :
          /\ after.groups[g].priority_override = before.groups[g].priority_override
          /\ g \notin touched => after.groups[g].mods = before.groups[g].mods

ValidMoveStep ==
    LET before == ActiveProfile(Store)
        after == ActiveProfile(Store)'
        op == last_op'
    IN  /\ (Moved("move_mod_to_folder")
             /\ ValidMoveTo(before, op.mod_index, op.folder_name)) =>
               /\ Store' = WithActive(Store, after)
               /\ TakenOut(before.mods, after.mods, op.mod_index)
               /\ GroupsKept(before, after, {op.folder_name})
               /\ PutLast(before.groups[op.folder_name].mods,
                          after.groups[op.folder_name].mods,
                          before.mods[op.mod_index + 1].mc)
        /\ (Moved("move_mod_from_folder")
             /\ ValidMoveFrom(before, op.folder_name, op.mod_index)) =>
               /\ Store' = WithActive(Store, after)
               /\ PutLast(before.mods, after.mods,
                          Individual(before.groups[op.folder_name].mods[op.mod_index + 1]))
               /\ GroupsKept(before, after, {op.folder_name})
               /\ TakenOut(before.groups[op.folder_name].mods,
                           after.groups[op.folder_name].mods, op.mod_index)
        /\ (Moved("move_mod_between_folders")
             /\ ValidMoveBetween(before, op.from_folder, op.mod_index, op.to_folder)) =>
               /\ Store' = WithActive(Store, after)
               /\ after.mods = before.mods
               /\ GroupsKept(before, after, {op.from_folder, op.to_folder})
               /\ \E rest \in {VecRemove(before.groups[op.from_folder].mods, op.mod_index)} :
                     /\ TakenOut(before.groups[op.from_folder].mods, rest, op.mod_index)
                     /\ IF op.from_folder = op.to_folder
                        THEN PutLast(rest, after.groups[op.to_folder].mods,
                                     before.groups[op.from_folder].mods[op.mod_index + 1])
                        ELSE /\ after.groups[op.from_folder].mods = rest
                             /\ PutLast(before.groups[op.to_folder].mods,
                                        after.groups[op.to_folder].mods,
                                        before.groups[op.from_folder].mods[op.mod_index + 1])

\* C24: a valid move relocates exactly one mod: it leaves its source position,
\* appears once at the end of the destination (the folder's mods, or the root
\* list as an Individual entry) with spec, required, enabled and priority
\* unchanged, and every other entry of the profile stays, in its order.
C24_ValidMove == [][ValidMoveStep]_vars

\* the first mod of folder "b" has been moved to the end of folder "a"
C24_Witness ==
    /\ Running /\ last_op # None /\ pending_deletion = None
    /\ last_op.fn = "move_mod_between_folders"
    /\ last_op.from_folder = G_B /\ last_op.to_folder = G_A /\ last_op.mod_index = 0
    /\ DOMAIN ActiveProfile(Store).groups = GroupNames
    /\ ActiveProfile(Store).groups[G_A].mods = <<Mod_A, Mod_B>>
    /\ ActiveProfile(Store).groups[G_B].mods = <<Mod_A>>

InvalidMoveStep ==
    LET before == ActiveProfile(Store)
        op == last_op'
    IN  (\/ Moved("move_mod_to_folder")
            /\ ~ValidMoveTo(before, op.mod_index, op.folder_name)
         \/ Moved("move_mod_from_folder")
            /\ ~ValidMoveFrom(before, op.folder_name, op.mod_index)
         \/ Moved("move_mod_between_folders")
            /\ ~ValidMoveBetween(before, op.from_folder, op.mod_index, op.to_folder))
        => UNCHANGED <<mod_data, disk, pc, fault>>

\* C25: a move whose index is out of range, whose source or target folder does
\* not exist or, for a move into a folder, whose root entry is a Group entry,
\* leaves the store as it was and does not panic.
C25_InvalidMove == [][InvalidMoveStep]_vars

\* a move into folder "a" was asked for a row past the end of a root list that
\* has lost no row
C25_Witness ==
    /\ Running /\ last_op # None /\ pending_deletion = None
    /\ last_op.fn = "move_mod_to_folder"
    /\ last_op.folder_name = G_A /\ last_op.mod_index = MaxRows
    /\ ActiveProfile(Store).groups = AllGroups
    /\ Len(ActiveProfile(Store).mods) = MaxRows

---------------------------------------------------------------------------
(* Properties of the deletion of mods (checked under Spec)                 *)

\* a frame of show_delete_confirmation that answers the deletion of a root mod
\* or of a mod inside a folder, the index being in range
DeleteModStep ==
    (pending_deletion # None /\ pending_deletion' = None /\ HasActive(Store)) =>
        LET pending == pending_deletion[1]
            before == ActiveProfile(Store)
            after == ActiveProfile(Store)'
        IN  /\ (pending.kind = "Mod" /\ pending.row_index < Len(before.mods)) =>
                  /\ Store' = WithActive(Store, after)
                  /\ \/ after = before
                     \/ /\ TakenOut(before.mods, after.mods, pending.row_index)
                        /\ after.groups = before.groups
            /\ (/\ pending.kind = "FolderMod"
                /\ ValidMoveFrom(before, pending.folder_name, pending.mod_index)) =>
                  /\ Store' = WithActive(Store, after)
                  /\ \/ after = before
                     \/ /\ after.mods = before.mods
                        /\ GroupsKept(before, after, {pending.folder_name})
                        /\ TakenOut(before.groups[pending.folder_name].mods,
                                    after.groups[pending.folder_name].mods,
                                    pending.mod_index)

\* Vec::remove has not been called with an index past the end
NoRemovePanic == ~(pc = "panicked" /\ fault = Some("Vec::remove"))

\* C26: the deletion of a root mod and the deletion of a mod inside a folder,
\* the index being in range, remove the one entry at that index and leave all
\* other entries as they were, in their order; neither panics, whatever the
\* index and the folder name, also when the list has shrunk since the
\* deletion was requested.
C26_DeleteMod == [][DeleteModStep]_vars /\ []NoRemovePanic

---------------------------------------------------------------------------
(* A profile name that is no key of profiles (checked under SpecView)      *)

\* C27: an operation that is given a profile name that is no key of profiles
\* fails with an error value, leaves the store unchanged and does not panic.
C27_NoSuchProfile ==
    (/\ last_op # None
     /\ "profile" \in DOMAIN last_op
     /\ last_op.profile \notin DOMAIN Store.profiles) =>
        pc = "running" /\ fault = None

---------------------------------------------------------------------------
(* Properties of the sort comparator (checked under SpecSort)              *)

\* the comparator has returned for two Individual entries
Compared == last_op # None /\ last_op.fn = "sort_mods" /\ "ret" \in DOMAIN last_op

\* the Name key of an entry: the lower-cased display name or None, and the
\* locator string
NameKey(e) ==
    <<IF e.info = None THEN None ELSE Some(to_lowercase(Unwrap(e.info).name)),
      e.item.mc.spec>>

\* cmp(x, y) under the configuration of the comparison at hand
Cmp(x, y) == sort_mods(last_op.config, x, y).v

\* C28: for every sort key and both directions the comparator is a total order
\* on Individual entries with optional metadata: cmp(a, b) is the reverse of
\* cmp(b, a), cmp is transitive, cmp(a, a) is Equal, and cmp(a, b) is Equal
\* only if a and b have the same Name key.
C28_TotalOrder ==
    Compared =>
        LET a == last_op.a
            b == last_op.b
        IN  /\ last_op.ret = OrderingReverse(Cmp(b, a))
            /\ Cmp(a, a) = Equal
            /\ last_op.ret = Equal => NameKey(a) = NameKey(b)
            /\ \A c \in IndividualEntries :
                  \E bc \in {Cmp(b, c)} :
                      /\ (last_op.ret # Greater /\ bc # Greater) =>
                            \E ac \in {Cmp(a, c)} :
                                /\ ac # Greater
                                /\ (last_op.ret = Less \/ bc = Less) => ac = Less

\* two entries that differ in the case of the name only and in nothing the
\* sort key looks at: the locator decides
C28_Witness ==
    /\ Compared
    /\ last_op.config = [sort_category |-> "Priority", is_ascending |-> TRUE]
    /\ last_op.a.item.mc.priority = last_op.b.item.mc.priority
    /\ last_op.a.info # None /\ last_op.b.info # None
    /\ Unwrap(last_op.a.info).name = <<"A">> /\ Unwrap(last_op.b.info).name = <<"a">>
    /\ last_op.a.item.mc.spec = U_B /\ last_op.b.item.mc.spec = U_A
    /\ last_op.ret = Greater

\* the key the sort category compares
PrimaryKey(sort_category, e) ==
    CASE sort_category = "Enabled" -> e.item.mc.enabled
      [] sort_category = "Priority" -> e.item.mc.priority
      [] sort_category = "Provider" ->
            IF e.info = None THEN None ELSE Some(Unwrap(e.info).provider)
      [] sort_category = "RequiredStatus" ->
            IF e.info = None \/ Unwrap(e.info).modio_tags = None THEN None
            ELSE Some(Unwrap(Unwrap(e.info).modio_tags).required_status)
      [] sort_category = "ApprovalCategory" ->
            IF e.info = None \/ Unwrap(e.info).modio_tags = None THEN None
            ELSE Some(Unwrap(Unwrap(e.info).modio_tags).approval_status)

\* the Name ordering: the Name keys compared, None before Some, then the
\* strings byte-wise
NameOrdering(x, y) ==
    LET kx == NameKey(x)
        ky == NameKey(y)
        first_less == \/ kx[1] = None /\ ky[1] # None
                      \/ kx[1] # None /\ ky[1] # None /\ StrLess(kx[1][1], ky[1][1])
    IN  IF kx = ky THEN Equal
        ELSE IF first_less \/ (kx[1] = ky[1] /\ StrLess(kx[2], ky[2])) THEN Less
        ELSE Greater

\* C29: for every sort key other than Name and both directions, two entries
\* with equal primary key compare as the Name ordering compares them: by the
\* lower-cased display name, or None without metadata, then by the locator.
C29_NameTieBreak ==
    (/\ Compared
     /\ last_op.config.sort_category # "Name"
     /\ PrimaryKey(last_op.config.sort_category, last_op.a)
           = PrimaryKey(last_op.config.sort_category, last_op.b)) =>
        last_op.ret = NameOrdering(last_op.a, last_op.b)

\* sorted by Enabled, ascending: two enabled mods named "B" and "a" compare by
\* the lower-cased names
C29_Witness ==
    /\ Compared
    /\ last_op.config = [sort_category |-> "Enabled", is_ascending |-> TRUE]
    /\ last_op.a.item.mc.enabled /\ last_op.b.item.mc.enabled
    /\ last_op.a.info # None /\ last_op.b.info # None
    /\ Unwrap(last_op.a.info).name = <<"B">> /\ Unwrap(last_op.b.info).name = <<"a">>
    /\ last_op.ret = Greater

\* C30: sorted by Name, in either direction, an entry without metadata orders
\* before every entry with metadata.
C30_MissingMetadataFirst ==
    (/\ Compared
     /\ last_op.config.sort_category = "Name"
     /\ last_op.a.info = None /\ last_op.b.info # None) =>
        last_op.ret = Less

---------------------------------------------------------------------------
(* The legacy file and the crash points of State::init (checked under      *)
(* SpecSave)                                                               *)

\* a step that removes profiles.json finds the store already in mod_data.json
LegacyKeptStep ==
    (disk.profiles_json # None /\ disk'.profiles_json = None) =>
        /\ disk.mod_data_json # None
        /\ ~IsTruncated(Unwrap(disk.mod_data_json))

\* C39: during State::init with only the legacy profiles.json present, the
\* legacy file is not removed before the migrated store has been written to
\* mod_data.json, so at every crash point one of the two files holds the data.
C39_LegacyKeptUntilSaved == [][LegacyKeptStep]_vars

---------------------------------------------------------------------------
(* Which file State::init reads (checked under SpecLoad)                   *)

\* the first match of read_mod_data_or_default, as a step
ReadStep ==
    (pc = "start" /\ pc' # "start") =>
        /\ disk.mod_data_json # None =>
              /\ disk' = disk
              /\ buf' = disk.mod_data_json
              /\ IF Unwrap(disk.mod_data_json) = Unreadable
                 THEN pc' = "failed" /\ fault' = Some("IoError")
                 ELSE IF DeMaybeVersionedModData(Unwrap(disk.mod_data_json)) = ParseError
                 THEN pc' = "failed" /\ fault' = Some("ModDataDeserializationFailed")
                 ELSE /\ pc' = "deserialized"
                      /\ Unwrap(maybe_versioned') \in
                             DeMaybeVersionedModData(Unwrap(disk.mod_data_json))
        /\ (disk.mod_data_json = None /\ disk.profiles_json = Some(Unreadable)) =>
              /\ disk' = disk
              /\ pc' = "failed" /\ fault' = Some("IoError")
        /\ pc' = "failed" => maybe_versioned' = None /\ mod_data' = None
        /\ disk = NoDisk =>
              /\ disk' = disk
              /\ pc' = "deserialized"
              /\ maybe_versioned' = Some(Versioned_(V0_2_0(ModData_v0_2_0(
                     S_default, (S_default :> ModProfile_v0_2_0(<<>>, EmptyMap))))))
        /\ disk # NoDisk =>
              \/ pc' = "failed"
              \/ Unwrap(maybe_versioned') \in DeMaybeVersionedModData(Unwrap(buf'))

\* a failed initialization stays failed and leaves the files alone
FailedStep == pc = "failed" => UNCHANGED <<disk, pc, mod_data>>

\* C40: when mod_data.json exists the legacy file is neither read nor deleted;
\* a mod_data.json that does not deserialize, or a read failing for a reason
\* other than not-found, fails the initialization with an error, with no
\* fall-back to the legacy file or the default store and no file modified; the
\* default store (one empty profile "default", active) is used only when both
\* files are absent.
C40_ReadPrecedence == [][ReadStep /\ FailedStep]_vars

\* mod_data.json did not deserialize while a readable legacy file lay beside it
C40_Witness ==
    /\ pc = "failed"
    /\ fault = Some("ModDataDeserializationFailed")
    /\ disk.mod_data_json # None
    /\ disk.profiles_json = Some(LegacyDoc)

---------------------------------------------------------------------------
(* The order handed to integration (checked under SpecInstall)             *)

\* the enabled mods of the active profile with their effective priority
Effective == get_enabled_mods_with_priority(Store, Store.active_profile).v

\* the number of entries that go before entry i: those of greater effective
\* priority, and those of equal priority that come earlier in the traversal
Before(list, i) ==
    Cardinality({j \in 1..Len(list) :
        \/ list[j][2] > list[i][2]
        \/ list[j][2] = list[i][2] /\ j < i})

\* C35: "Install mods" hands over exactly the specs of
\* get_enabled_mods_with_priority(active_profile), by effective priority
\* descending, equal priorities in traversal order, for every i32 priority;
\* the negation of i32::MIN neither panics nor misorders.
C35_InstallOrder ==
    (last_op # None /\ last_op.fn = "install_mods") =>
        /\ pc = "running"
        /\ Len(last_op.ret) = Len(Effective)
        /\ \A i \in 1..Len(Effective) :
              last_op.ret[Before(Effective, i) + 1] = Effective[i][1].spec

---------------------------------------------------------------------------
(* Properties of the sorted and the manual view (checked under SpecFrame)  *)

\* C31: whatever the order in which a sort key is selected and folders are
\* created, and for a store that starts with a saved sort key and folders, the
\* sorted rendering path hands only Individual entries to the metadata
\* pre-fetch and the comparator: it never reaches unimplemented!() on a Group.
C31_SortedViewSkipsGroups ==
    (last_op # None /\ last_op.fn = "ui_profile") =>
        pc = "running" /\ fault # Some("unimplemented")

\* a click on a sort radio button, and a rendering in sorted order, leave the
\* store and its file as they are
SortPureStep ==
    (\/ sorting_config' # sorting_config
     \/ last_op = None /\ last_op' # None /\ last_op'.fn = "ui_profile")
    => mod_data' = mod_data /\ disk' = disk

\* the mods sequence of a profile changes only by a drag in the manual view, by
\* an edit of a row, or by the creation of a folder
OrderChangeStep ==
    (/\ pc = "running"
     /\ \E n \in DOMAIN Store.profiles : Store'.profiles[n].mods # Store.profiles[n].mods)
    => \/ /\ sorting_config = None
          /\ last_op = None /\ last_op' # None /\ last_op'.fn = "update_vec"
       \/ /\ last_op = None /\ last_op' # None
          /\ last_op'.fn \in {"toggle_mod", "drag_priority", "select_version"}
          /\ last_op'.place.in_folder = None
       \/ create_folder_popup # None /\ create_folder_popup' = None

\* C32: sorting is pure with respect to the store: selecting or changing the
\* sort key or direction and rendering in sorted order never change the order
\* or content of the persisted mods sequence, which changes only by the drag
\* reordering of the manual view and by the mutation operations.
C32_SortingPure == [][SortPureStep /\ OrderChangeStep]_vars

\* a profile drawn in an order that is not the stored one
C32_Witness ==
    /\ pc = "running"
    /\ last_op # None /\ last_op.fn = "ui_profile"
    /\ last_op.rows = <<1, 0>>
    /\ ActiveProfile(Store).mods = <<Individual(Mod_A), Individual(Mod_B)>>

\* C34: every change of the store's content made while a frame is handled is
\* saved before the frame ends: between frames the file holds the store as it
\* is in memory.
C34_SavedAtFrameEnd ==
    pc = "running" =>
        disk.mod_data_json = Some(SerVersionAnnotatedModData(Unwrap(mod_data)))

---------------------------------------------------------------------------
(* Conservation of the mods and of the folder references under the         *)
(* structural edits (checked under Spec)                                   *)

\* the places of a profile that hold the mod x: root rows and folder members
Holders(profile, x) ==
    {<<None, i>> : i \in {j \in 1..Len(profile.mods) :
                             ~IsGroup(profile.mods[j]) /\ profile.mods[j].mc = x}}
    \cup UNION {{<<Some(g), k>> : k \in {j \in 1..Len(profile.groups[g].mods) :
                                            profile.groups[g].mods[j] = x}} :
                g \in DOMAIN profile.groups}
\* the mods a profile holds anywhere
Held(profile) ==
    {profile.mods[i].mc : i \in {j \in 1..Len(profile.mods) : ~IsGroup(profile.mods[j])}}
    \cup UNION {{profile.groups[g].mods[k] : k \in 1..Len(profile.groups[g].mods)} :
                g \in DOMAIN profile.groups}
\* p and q hold the same multiset of mods
SameMods(p, q) ==
    \A x \in Held(p) \cup Held(q) :
        Cardinality(Holders(p, x)) = Cardinality(Holders(q, x))
\* q holds the mods of p but for one occurrence of one mod
OneLess(p, q) ==
    \E x \in Held(p) :
        /\ Cardinality(Holders(q, x)) = Cardinality(Holders(p, x)) - 1
        /\ \A y \in (Held(p) \cup Held(q)) \ {x} :
              Cardinality(Holders(p, y)) = Cardinality(Holders(q, y))

\* a frame of the running editor, seen on the profiles it keeps
ConservationStep ==
    (pc = "running" /\ pc' = "running") =>
        \A n \in (DOMAIN Store.profiles) \cap (DOMAIN Store'.profiles) :
            IF /\ pending_deletion # None /\ pending_deletion' = None
               /\ Unwrap(pending_deletion).kind \in {"Mod", "FolderMod"}
            THEN \/ SameMods(Store.profiles[n], Store'.profiles[n])
                 \/ OneLess(Store.profiles[n], Store'.profiles[n])
            ELSE SameMods(Store.profiles[n], Store'.profiles[n])

\* C36: no mod is lost or duplicated by the structural edits: creating,
\* renaming and deleting a folder and the three moves keep the multiset of
\* mods a profile holds (root mods and the members of all its groups), for any
\* folder names entered; only the deletion of a mod shrinks it, by one entry.
C36_ModsConserved == [][ConservationStep]_vars

\* every group of the profile is named by exactly one Group entry, and no two
\* Group entries share a name
OneReferenceEach(profile) ==
    /\ \A g \in DOMAIN profile.groups :
          Cardinality({i \in 1..Len(profile.mods) :
              IsGroup(profile.mods[i]) /\ profile.mods[i].group_name = g}) = 1
    /\ \A i, j \in 1..Len(profile.mods) :
          (i # j /\ IsGroup(profile.mods[i]) /\ IsGroup(profile.mods[j]))
              => profile.mods[i].group_name # profile.mods[j].group_name

ReferencesKeptStep ==
    (/\ pc = "running" /\ pc' = "running"
     /\ \A n \in DOMAIN Store.profiles : OneReferenceEach(Store.profiles[n]))
    => \A n \in DOMAIN Store'.profiles : OneReferenceEach(Store'.profiles[n])

\* C37: from a store in which every key of every groups map is named by
\* exactly one Group entry, every create-folder, rename-folder, delete-folder,
\* move and confirmed deletion leads to such a store: no group is orphaned and
\* no group name is referenced twice.
C37_NoOrphanNoDuplicate == [][ReferencesKeptStep]_vars

\* a confirmed deletion of a mod takes out an Individual entry (or a folder
\* member) carrying the recorded name, and nothing else
RequestedModRemovedStep ==
    (/\ pc = "running" /\ pc' = "running"
     /\ pending_deletion # None /\ pending_deletion' = None
     /\ Unwrap(pending_deletion).kind \in {"Mod", "FolderMod"}
     /\ mod_data' # mod_data)
    => LET pending == Unwrap(pending_deletion)
           before == ActiveProfile(Store)
           after == ActiveProfile(Store')
       IN  /\ Store'.active_profile = Store.active_profile
           /\ IF pending.kind = "Mod"
              THEN /\ after.groups = before.groups
                   /\ \E i \in 1..Len(before.mods) :
                         /\ ~IsGroup(before.mods[i])
                         /\ before.mods[i].mc.spec = pending.mod_name
                         /\ after.mods = VecRemove(before.mods, i - 1)
              ELSE /\ after.mods = before.mods
                   /\ pending.folder_name \in DOMAIN before.groups
                   /\ \E k \in 1..Len(before.groups[pending.folder_name].mods) :
                         /\ before.groups[pending.folder_name].mods[k].spec = pending.mod_name
                         /\ after.groups =
                               [before.groups EXCEPT ![pending.folder_name].mods =
                                   VecRemove(@, k - 1)]

\* C38: a confirmed mod deletion removes the mod that was requested, whatever
\* edits come between the request and its confirmation: the entry removed is
\* the Individual entry whose locator was recorded, in the container where it
\* was requested, never a Group reference or another mod.
C38_RequestedModRemoved == [][RequestedModRemovedStep]_vars

---------------------------------------------------------------------------
(* Locality of a profile's folders (checked under SpecShare)               *)

\* a frame of the running editor leaves every profile but the active one as
\* it was; the only frame that touches another profile removes it whole, on a
\* confirmed profile deletion naming it
OtherProfilesKeptStep ==
    (pc = "running" /\ mod_data' # None) =>
        \A n \in (DOMAIN Store.profiles) \ {Store.active_profile} :
            \/ /\ n \in DOMAIN Store'.profiles
               /\ Store'.profiles[n] = Store.profiles[n]
            \/ /\ pending_deletion = Some(PendingProfile(n))
               /\ pending_deletion' = None
               /\ n \notin DOMAIN Store'.profiles

\* C33: group membership is local to a profile: a folder creation, rename or
\* deletion, a move, a mod deletion, an edit of a member or of a priority
\* override applied to one profile leaves the mods and groups of every other
\* profile unchanged, also when both profiles got their copy of the same
\* global group from the migration of generation 1.
C33_GroupsLocal == [][OtherProfilesKeptStep]_vars

\* both profiles hold their own group "a" from the migration, and the copy of
\* the active profile has been changed while the other still is the legacy group
C33_Witness ==
    /\ pc = "running"
    /\ DOMAIN Store.profiles = {S_default, P_P}
    /\ \A n \in {S_default, P_P} : G_A \in DOMAIN Store.profiles[n].groups
    /\ ActiveProfile(Store).groups[G_A] # ModGroup(<<Mod_A>>, Some(5))
    /\ \E n \in {S_default, P_P} \ {Store.active_profile} :
          Store.profiles[n].groups[G_A] = ModGroup(<<Mod_A>>, Some(5))

====
